---- MODULE Spec2Model ----
(***************************************************************************)
(* DV360 YouTube channel categorization workflow (src/main.py and the      *)
(* services it drives): placement extraction, keyword/cache routing, the   *)
(* time-boxed batch loop with per-channel checkpointing, the keyword       *)
(* auto-flag sweep and the category store.                                 *)
(*                                                                         *)
(* Python values are modelled as follows.                                  *)
(*   str   a sequence of tokens; a token is one character, or a word that  *)
(*         holds none of the characters the code splits on or replaces     *)
(*         (so substring tests, split and replace act on tokens as they    *)
(*         act on characters);                                             *)
(*   dict  a function whose domain is the set of keys present;             *)
(*   list  a sequence;  None  the absence of a key or a tagged outcome.    *)
(***************************************************************************)
EXTENDS Integers, Sequences, FiniteSets, TLC

(***************************************************************************)
(* Bounds of the model.                                                    *)
(***************************************************************************)
\* number of distinct channel URLs a report may cite
MaxChannels == 3

\* channels of a report that is processed twice
MaxChannelsTwice == 2

\* main.py:275 sets BATCH_SIZE = 100; the model runs the same loop with
\* batches scaled down to this size
BATCH_SIZE == 2
\* main.py:345 reads the clock every 100 processed auto-flagged channels;
\* scaled down likewise
SWEEP_CHECK_EVERY == 2

(***************************************************************************)
(* Program constants.                                                      *)
(***************************************************************************)
\* main.py:274  MAX_RUNTIME = 45 * 60
MAX_RUNTIME == 2700
\* main.py:334, 347  5 * 60 seconds kept in reserve for list building
RESERVE == 300
\* openai_service.py:95 and youtube_service.py:102  max_retries=3
MAX_RETRIES == 3
\* openai_service.py:38  Retry(total=3, ...)
RETRY_TOTAL == 3
\* firestore_service.py:111, 144  batch_size = 500
STORE_BATCH_SIZE == 500
\* firestore_service.py:262  len(doc_id) > 1000
MAX_DOC_ID_LEN == 1000

(***************************************************************************)
(* Python str helpers.                                                     *)
(***************************************************************************)
\* str.lower() on one token
LowerTok(t) ==
    CASE t = "K" -> "k"
      [] t = "I" -> "i"
      [] t = "D" -> "d"
      [] t = "U" -> "u"
      [] t = "N" -> "n"
      [] t = "O" -> "o"
      [] t = "W" -> "w"
      [] t = "T" -> "t"
      [] t = "V" -> "v"
      [] t = "Rate" -> "rate"
      [] t = "Limit" -> "limit"
      [] OTHER -> t

\* str.lower()
Lower(s) == [i \in 1..Len(s) |-> LowerTok(s[i])]

\* needle in hay
Contains(needle, hay) ==
    \E i \in 0..(Len(hay) - Len(needle)) :
        SubSeq(hay, i + 1, i + Len(needle)) = needle

IsSpace(t) == t = " "

\* str.strip()
RECURSIVE LStrip(_)
LStrip(s) ==
    IF s # <<>> /\ IsSpace(Head(s)) THEN LStrip(Tail(s)) ELSE s

RECURSIVE RStrip(_)
RStrip(s) ==
    IF s # <<>> /\ IsSpace(s[Len(s)]) THEN RStrip(SubSeq(s, 1, Len(s) - 1)) ELSE s

Strip(s) == RStrip(LStrip(s))

\* number of characters of a token
TokLen(t) ==
    CASE t = "https" -> 5
      [] t = "www" -> 3
      [] t = "youtube" -> 7
      [] t = "com" -> 3
      [] t = "channel" -> 7
      [] t = "user" -> 4
      [] t = "x*500" -> 500
      [] OTHER -> 1

\* len(s)
RECURSIVE StrLen(_)
StrLen(s) == IF s = <<>> THEN 0 ELSE TokLen(Head(s)) + StrLen(Tail(s))

\* dict.get(k, default)
Get(d, k, default) == IF k \in DOMAIN d THEN d[k] ELSE default

\* d with d[k] = v (key added or replaced)
Put(d, k, v) == [x \in (DOMAIN d) \cup {k} |-> IF x = k THEN v ELSE d[x]]

EmptyDict == [x \in {} |-> x]

(***************************************************************************)
(* More str helpers used by the extractor and the resolver.                *)
(***************************************************************************)
\* the value None where a str was expected
None == <<"<None>">>

\* s.find(needle): index (from 0) of the first occurrence; -1 when absent
Find(needle, hay) ==
    IF Contains(needle, hay)
    THEN CHOOSE i \in 0..(Len(hay) - Len(needle)) :
            /\ SubSeq(hay, i + 1, i + Len(needle)) = needle
            /\ \A j \in 0..(i - 1) : SubSeq(hay, j + 1, j + Len(needle)) # needle
    ELSE -1

\* s[i:] (i counted from 0)
From(s, i) == SubSeq(s, i + 1, Len(s))

\* s.split(sep) for a one-token separator: never empty, keeps empty pieces
RECURSIVE SplitAcc(_, _, _)
SplitAcc(s, sep, cur) ==
    IF s = <<>> THEN <<cur>>
    ELSE IF Head(s) = sep THEN <<cur>> \o SplitAcc(Tail(s), sep, <<>>)
    ELSE SplitAcc(Tail(s), sep, Append(cur, Head(s)))

Split(s, sep) == SplitAcc(s, sep, <<>>)

\* s.split(): split on runs of whitespace, dropping empty pieces
RECURSIVE SplitWsAcc(_, _)
SplitWsAcc(s, cur) ==
    IF s = <<>> THEN (IF cur = <<>> THEN <<>> ELSE <<cur>>)
    ELSE IF IsSpace(Head(s))
         THEN (IF cur = <<>> THEN <<>> ELSE <<cur>>) \o SplitWsAcc(Tail(s), <<>>)
    ELSE SplitWsAcc(Tail(s), Append(cur, Head(s)))

SplitWs(s) == SplitWsAcc(s, <<>>)

\* s.strip(chars)
RECURSIVE LStripChars(_, _)
LStripChars(s, chars) ==
    IF s # <<>> /\ Head(s) \in chars THEN LStripChars(Tail(s), chars) ELSE s

RECURSIVE RStripChars(_, _)
RStripChars(s, chars) ==
    IF s # <<>> /\ s[Len(s)] \in chars
    THEN RStripChars(SubSeq(s, 1, Len(s) - 1), chars) ELSE s

StripChars(s, chars) == RStripChars(LStripChars(s, chars), chars)

\* s.replace(old, new) for a one-token old and a str new
RECURSIVE Replace(_, _, _)
Replace(s, old, new) ==
    IF s = <<>> THEN <<>>
    ELSE (IF Head(s) = old THEN new ELSE <<Head(s)>>) \o Replace(Tail(s), old, new)

Digits == {"0", "1", "2", "3", "4", "5", "6", "7", "8", "9"}

DigitVal(t) ==
    CASE t = "0" -> 0 [] t = "1" -> 1 [] t = "2" -> 2 [] t = "3" -> 3
      [] t = "4" -> 4 [] t = "5" -> 5 [] t = "6" -> 6 [] t = "7" -> 7
      [] t = "8" -> 8 [] t = "9" -> 9

RECURSIVE DecimalVal(_, _)
DecimalVal(s, acc) ==
    IF s = <<>> THEN acc ELSE DecimalVal(Tail(s), 10 * acc + DigitVal(Head(s)))

(***************************************************************************)
(* Placement Extractor (src/utils/csv_processor.py).                       *)
(***************************************************************************)
YT == <<"youtube", ".", "com">>
UrlPrefix == <<"https", ":", "/", "/", "www", ".">> \o YT \o <<"/">>
TrimChars == {",", ";", "(", ")"}

\* url_part.split('/')[-1].split()[0].strip(',;()'); the [0] raises IndexError
\* when the last piece holds nothing but whitespace
LastSegment(url_part) ==
    LET pieces == Split(url_part, "/")
        words == SplitWs(pieces[Len(pieces)])
    IN  IF words = <<>> THEN [raised |-> TRUE]
        ELSE [raised |-> FALSE, id |-> StripChars(words[1], TrimChars)]

\* one branch of _extract_channel_url: the text from the marker on, its last
\* piece as the identifier, the canonical URL rebuilt (None when it raised)
CanonicalFrom(placement_text, marker, shape) ==
    LET seg == LastSegment(From(placement_text, Find(marker, placement_text)))
    IN  IF seg.raised THEN None ELSE UrlPrefix \o shape \o seg.id

_extract_channel_url(placement_text) ==
    IF Contains(YT \o <<"/", "channel", "/">>, placement_text)
    THEN CanonicalFrom(placement_text, YT \o <<"/", "channel", "/">>, <<"channel", "/">>)
    ELSE IF Contains(YT \o <<"/", "@">>, placement_text)
    THEN CanonicalFrom(placement_text, YT \o <<"/", "@">>, <<"@">>)
    ELSE IF Contains(YT \o <<"/", "c", "/">>, placement_text)
    THEN CanonicalFrom(placement_text, YT \o <<"/", "c", "/">>, <<"c", "/">>)
    ELSE IF Contains(YT \o <<"/", "user", "/">>, placement_text)
    THEN CanonicalFrom(placement_text, YT \o <<"/", "user", "/">>, <<"user", "/">>)
    ELSE IF Contains(YT \o <<"/">>, placement_text)
    THEN LET url_part == From(placement_text, Find(YT \o <<"/">>, placement_text))
             parts == Split(url_part, "/")
             words == IF Len(parts) >= 2 THEN SplitWs(parts[2]) ELSE <<>>
         IN  IF Len(parts) >= 2
             THEN (IF words = <<>> THEN None
                   ELSE UrlPrefix \o StripChars(words[1], TrimChars))
             ELSE None
    ELSE None

\* int(impressions_str.replace(',', '').strip()), 0 on ValueError/AttributeError;
\* int() takes decimal digits after an optional sign
_parse_impressions(impressions_str) ==
    IF impressions_str = None THEN 0
    ELSE LET t == Strip(Replace(impressions_str, ",", <<>>))
             signed == t # <<>> /\ Head(t) \in {"-", "+"}
             d == IF signed THEN Tail(t) ELSE t
         IN  IF d # <<>> /\ \A i \in 1..Len(d) : d[i] \in Digits
             THEN (IF signed /\ Head(t) = "-" THEN 0 - DecimalVal(d, 0)
                   ELSE DecimalVal(d, 0))
             ELSE 0

\* a or b or '' on two row cells
FirstTruthy(a, b) ==
    IF a # None /\ a # <<>> THEN a ELSE IF b # None /\ b # <<>> THEN b ELSE <<>>

PLACEMENT_ALL == "Placement (All YouTube Channels)"
PLACEMENT_NAME_ALL == "Placement Name (All YouTube Channels)"

\* lines 92-101 for one row: the canonical URL, or None when the row is passed over
RowUrl(row) ==
    LET placement == Strip(FirstTruthy(Get(row, PLACEMENT_ALL, None),
                                       Get(row, "Placement", None)))
    IN  IF placement = <<>> \/ ~Contains(YT, Lower(placement)) THEN None
        ELSE _extract_channel_url(placement)

\* row.get('Placement Name (All YouTube Channels)', row.get('Placement Name', ''))
RowName(row) == Get(row, PLACEMENT_NAME_ALL, Get(row, "Placement Name", <<>>))

\* position of url among the keys of the mapping, 0 when absent
IndexOf(channels, url) ==
    IF \E i \in 1..Len(channels) : channels[i].url = url
    THEN CHOOSE i \in 1..Len(channels) : channels[i].url = url
    ELSE 0

\* faulty variant: the impressions of the row replace the sum so far
FoldRowLastWins(channels, url, row) ==
    LET i == IndexOf(channels, url)
        new == [url |-> url, placement_name |-> RowName(row),
                impressions |-> _parse_impressions(Get(row, "Impressions", <<"0">>)),
                advertisers |-> {Get(row, "Advertiser", <<>>)},
                insertion_orders |-> {Get(row, "Insertion Order", <<>>)}]
    IN  IF i = 0 THEN Append(channels, new) ELSE [channels EXCEPT ![i] = new]

\* lines 113-116: fold one row into the record of its URL (created on first use)
FoldRow(channels, url, row) ==
    LET i == IndexOf(channels, url)
        old == IF i = 0
               THEN [url |-> url, placement_name |-> <<>>, impressions |-> 0,
                     advertisers |-> {}, insertion_orders |-> {}]
               ELSE channels[i]
        new == [old EXCEPT
                  !.placement_name = RowName(row),
                  !.impressions = @ + _parse_impressions(Get(row, "Impressions", <<"0">>)),
                  !.advertisers = @ \cup {Get(row, "Advertiser", <<"U", "n", "k", "n", "o", "w", "n">>)},
                  !.insertion_orders = @ \cup {Get(row, "Insertion Order", <<"U", "n", "k", "n", "o", "w", "n">>)}]
    IN  IF i = 0 THEN Append(channels, new) ELSE [channels EXCEPT ![i] = new]

\* faulty variant: the test of line 106 without strip() and lower()
IsUnknownNameExact(placement_name) == placement_name = <<"U", "n", "k", "n", "o", "w", "n">>

\* line 106
IsUnknownName(placement_name) ==
    Lower(Strip(placement_name)) = <<"u", "n", "k", "n", "o", "w", "n">>

\* the loop of lines 90-118; raised when placement_name.strip() meets None
RECURSIVE FoldRows(_, _)
FoldRows(rows, acc) ==
    IF rows = <<>> THEN [raised |-> FALSE, channels |-> acc]
    ELSE LET row == Head(rows)
             url == RowUrl(row)
         IN  IF url = None THEN FoldRows(Tail(rows), acc)
             ELSE IF RowName(row) = None THEN [raised |-> TRUE, channels |-> <<>>]
             ELSE IF IsUnknownName(RowName(row))
                  THEN FoldRows(Tail(rows), acc)
             ELSE FoldRows(Tail(rows), FoldRow(acc, url, row))

\* sorted(..., key=impressions, reverse=True): stable, equal keys keep their order
RECURSIVE InsertDesc(_, _)
InsertDesc(sorted, x) ==
    IF sorted = <<>> THEN <<x>>
    ELSE IF Head(sorted).impressions >= x.impressions
         THEN <<Head(sorted)>> \o InsertDesc(Tail(sorted), x)
         ELSE <<x>> \o sorted

\* faulty variant: the entries left in the order of their first row
SortDescSkipped(items, acc) == acc \o items

RECURSIVE SortDesc(_, _)
SortDesc(items, acc) ==
    IF items = <<>> THEN acc ELSE SortDesc(Tail(items), InsertDesc(acc, Head(items)))

\* the mapping returned, as the sequence of its entries in iteration order
extract_youtube_channels(rows) ==
    LET folded == FoldRows(rows, <<>>)
    IN  IF folded.raised THEN folded
        ELSE [raised |-> FALSE, channels |-> SortDesc(folded.channels, <<>>)]

(***************************************************************************)
(* Category Store (src/services/firestore_service.py).  The collection is  *)
(* a function from the document ids present to the documents; the          *)
(* server-assigned created_at/updated_at fields are left out.              *)
(***************************************************************************)
RESERVED == {"/", ":", "?", "&", "#", "."}

\* hashlib.sha256(url).hexdigest(): a digest is a word of hexadecimal digits,
\* taken to be different for different URLs
HexTok(t) ==
    CASE t = "/" -> "2f" [] t = ":" -> "3a" [] t = "?" -> "3f"
      [] t = "&" -> "26" [] t = "#" -> "23" [] t = "." -> "2e"
      [] t = "_" -> "5f" [] OTHER -> t

Sha256Hex(url) == <<"sha256">> \o [i \in 1..Len(url) |-> HexTok(url[i])]

\* the six chained str.replace calls of lines 258-259
ReplaceReserved(channel_url) ==
    [i \in 1..Len(channel_url) |->
        IF channel_url[i] \in RESERVED THEN "_" ELSE channel_url[i]]

\* hexdigest() of SHA-256: 64 hexadecimal digits
DIGEST_HEX_LEN == 64

\* len() of a document id
DocIdLen(doc_id) ==
    IF doc_id # <<>> /\ Head(doc_id) = "sha256" THEN DIGEST_HEX_LEN ELSE StrLen(doc_id)

\* faulty variant: the length never looked at
SanitizeUnbounded(channel_url) == ReplaceReserved(channel_url)

_sanitize_doc_id(channel_url) ==
    LET doc_id == ReplaceReserved(channel_url)
    IN  IF StrLen(doc_id) > MAX_DOC_ID_LEN THEN Sha256Hex(channel_url) ELSE doc_id

\* the keys save_data takes from data.get(key, default), with their defaults
SaveDefaults ==
    [is_children_content |-> FALSE,
     confidence |-> <<"low">>,
     reasoning |-> <<>>,
     content_vertical |-> <<>>,
     content_niche |-> <<>>,
     content_format |-> <<>>,
     brand_safety_score |-> <<>>,
     premium_suitable |-> TRUE,
     geographic_focus |-> <<>>,
     primary_language |-> <<>>,
     purchase_intent |-> <<>>,
     summary |-> <<>>]

\* keys copied only when the data holds them
SaveOptional == {"metadata", "full_analysis"}

\* lines 155-182: the document written for one categorization dict
SaveData(data) ==
    [k \in {"channel_url", "channel_name", "version"} \cup DOMAIN SaveDefaults
           \cup (SaveOptional \cap DOMAIN data) |->
        IF k = "version" THEN <<"2", ".", "0">>
        ELSE IF k \in DOMAIN SaveDefaults THEN Get(data, k, SaveDefaults[k])
        ELSE data[k]]

\* data['channel_url'] / data['channel_name'] raise KeyError when absent
SaveRaises(data) == ~({"channel_url", "channel_name"} \subseteq DOMAIN data)

\* faulty variant: batch.set(doc_ref, save_data, merge=True), the fields of the
\* document already there kept unless save_data holds them
RECURSIVE SetAllMerged(_, _)
SetAllMerged(docs, batch_data) ==
    IF batch_data = <<>> THEN docs
    ELSE LET doc_id == _sanitize_doc_id(Head(batch_data)["channel_url"])
             save_data == SaveData(Head(batch_data))
             there == Get(docs, doc_id, EmptyDict)
         IN  SetAllMerged(Put(docs, doc_id,
                              [k \in DOMAIN there \cup DOMAIN save_data |->
                                  IF k \in DOMAIN save_data THEN save_data[k] ELSE there[k]]),
                          Tail(batch_data))

\* batch.set(doc_ref, save_data) for every dict of one batch, in order
RECURSIVE SetAll(_, _)
SetAll(docs, batch_data) ==
    IF batch_data = <<>> THEN docs
    ELSE SetAll(Put(docs, _sanitize_doc_id(Head(batch_data)["channel_url"]),
                    SaveData(Head(batch_data))),
                Tail(batch_data))

\* faulty variant: the whole list committed as one batch
SaveBatchesUnsplit(docs, categories_data, k, fail_at, batch_size, commits) ==
    IF categories_data = <<>> THEN [raised |-> FALSE, docs |-> docs, commits |-> commits]
    ELSE IF (\E i \in 1..Len(categories_data) : SaveRaises(categories_data[i]))
            \/ k = fail_at
    THEN [raised |-> TRUE, docs |-> docs, commits |-> commits]
    ELSE [raised |-> FALSE, docs |-> SetAll(docs, categories_data),
          commits |-> Append(commits, categories_data)]

\* the loop of lines 147-187 from batch number k on, batch_size being the
\* local of line 144; commit number fail_at (0: none) is refused by the
\* backend.  A raise leaves the earlier commits.  commits lists what was
\* committed, batch by batch.
RECURSIVE SaveBatches(_, _, _, _, _, _)
SaveBatches(docs, categories_data, k, fail_at, batch_size, commits) ==
    IF categories_data = <<>> THEN [raised |-> FALSE, docs |-> docs, commits |-> commits]
    ELSE LET n == IF Len(categories_data) < batch_size
                  THEN Len(categories_data) ELSE batch_size
             batch_data == SubSeq(categories_data, 1, n)
         IN  IF (\E i \in 1..n : SaveRaises(batch_data[i])) \/ k = fail_at
             THEN [raised |-> TRUE, docs |-> docs, commits |-> commits]
             ELSE SaveBatches(SetAll(docs, batch_data),
                              SubSeq(categories_data, n + 1, Len(categories_data)),
                              k + 1, fail_at, batch_size, Append(commits, batch_data))

SaveFrom(docs, categories_data, k, fail_at) ==
    SaveBatches(docs, categories_data, k, fail_at, STORE_BATCH_SIZE, <<>>)

batch_save_categories(docs, categories_data, fail_at) ==
    SaveFrom(docs, categories_data, 1, fail_at)

\* faulty variant: a lookup that finds nothing
NoCachedCategories(docs, channel_urls) == EmptyDict

\* lines 107-133: the documents found, keyed by the URL asked for
batch_get_cached_categories(docs, channel_urls) ==
    LET found == {i \in 1..Len(channel_urls) :
                     _sanitize_doc_id(channel_urls[i]) \in DOMAIN docs}
    IN  [u \in {channel_urls[i] : i \in found} |-> docs[_sanitize_doc_id(u)]]

(***************************************************************************)
(* Metadata Resolver (src/services/youtube_service.py).  One attempt of    *)
(* get_channel_metadata is answered by a pair of service responses:        *)
(*   search  the answer to search().list, used for handle/custom URLs;     *)
(*   detail  the answer to channels().list.                                *)
(* A response is [kind |-> "items"], [kind |-> "empty"],                   *)
(* [kind |-> "http", status |-> n, reason |-> str] (HttpError) or          *)
(* [kind |-> "error"] (any other exception, e.g. the network).             *)
(***************************************************************************)
\* s.split(marker)[-1]: the text after the last occurrence of marker
AfterLast(s, marker) ==
    LET hits == {i \in 0..(Len(s) - Len(marker)) :
                    SubSeq(s, i + 1, i + Len(marker)) = marker}
    IN  IF hits = {} THEN s
        ELSE LET last == CHOOSE i \in hits : \A j \in hits : j <= i
             IN  From(s, last + Len(marker))

\* faulty variant: every URL taken by the generic branch of lines 56-59
ExtractAsCustom(url0) ==
    [type |-> "custom", identifier |-> Split(AfterLast(Strip(url0), YT \o <<"/">>), "/")[1]]

\* lines 39-64
extract_channel_id_from_url(url0) ==
    LET url == Strip(url0)
    IN  IF Contains(YT \o <<"/", "channel", "/">>, url)
        THEN [type |-> "id",
              identifier |-> Split(Split(AfterLast(url, YT \o <<"/", "channel", "/">>),
                                         "/")[1], "?")[1]]
        ELSE IF Contains(YT \o <<"/", "c", "/">>, url)
                \/ Contains(YT \o <<"/", "user", "/">>, url)
        THEN [type |-> "custom",
              identifier |-> Split(AfterLast(url, YT \o <<"/">>), "/")[2]]
        ELSE IF Contains(YT \o <<"/", "@">>, url)
        THEN [type |-> "handle",
              identifier |-> Split(Split(AfterLast(url, YT \o <<"/", "@">>),
                                         "/")[1], "?")[1]]
        ELSE IF Contains(YT \o <<"/">>, url)
        THEN [type |-> "custom",
              identifier |-> Split(AfterLast(url, YT \o <<"/">>), "/")[1]]
        ELSE [type |-> "unknown", identifier |-> url]

\* the channel id the directory's search returns for a name, and the title it
\* holds for a channel id (the directory's data, fixed during a run)
ChannelIdOf(identifier) == <<"UC">> \o identifier
TitleOf(channel_id) == <<"title", " ">> \o channel_id

\* lines 157-170, the keys the workflow reads
Metadata(channel_id) ==
    [channel_id |-> channel_id,
     channel_name |-> TitleOf(channel_id),
     channel_url |-> UrlPrefix \o <<"channel", "/">> \o channel_id]

\* str(error) of an HttpError
HttpErrorText(resp) == <<"HttpError", " ">> \o resp.reason

ResolverStart ==
    [retry_count |-> 0, status |-> "running", value |-> EmptyDict, error |-> <<>>,
     search_calls |-> 0, detail_calls |-> 0]

\* lines 136-173 and the handlers of lines 175-190 for the detail fetch
DetailStep(st, channel_id, detail) ==
    LET called == [st EXCEPT !.detail_calls = @ + 1]
    IN  CASE detail.kind = "items" ->
               [called EXCEPT !.status = "returned", !.value = Metadata(channel_id)]
          [] detail.kind = "empty" ->
               [called EXCEPT !.status = "none"]
          [] detail.kind = "http" /\ detail.status = 403 ->
               [called EXCEPT !.status = "raised", !.error = HttpErrorText(detail)]
          [] detail.kind = "http" /\ detail.status = 404 ->
               [called EXCEPT !.status = "none"]
          [] OTHER ->
               [called EXCEPT !.retry_count = @ + 1]

\* lines 76-100: get_channel_id_from_handle swallows every HttpError
get_channel_id_from_handle(handle, search) ==
    CASE search.kind = "items" -> [raised |-> FALSE, channel_id |-> ChannelIdOf(handle)]
      [] search.kind = "empty" -> [raised |-> FALSE, channel_id |-> None]
      [] search.kind = "http" -> [raised |-> FALSE, channel_id |-> None]
      [] OTHER -> [raised |-> TRUE, channel_id |-> None]

\* one pass of the while loop of lines 115-190
ResolverAttempt(st, channel_url, resp) ==
    LET t == extract_channel_id_from_url(channel_url)
    IN  IF t.type \in {"handle", "custom"}
        THEN LET r == get_channel_id_from_handle(
                          LStripChars(t.identifier, {"@"}), resp.search)
                 searched == [st EXCEPT !.search_calls = @ + 1]
             IN  IF r.raised
                 THEN [searched EXCEPT !.retry_count = @ + 1]
                 ELSE IF r.channel_id = None
                 THEN [searched EXCEPT !.status = "none"]
                 ELSE DetailStep(searched, r.channel_id, resp.detail)
        ELSE IF t.type = "id"
        THEN DetailStep(st, t.identifier, resp.detail)
        ELSE [st EXCEPT !.status = "none"]

\* the while loop: attempts while retry_count < max_retries, then None
RECURSIVE ResolverLoop(_, _, _)
ResolverLoop(st, channel_url, script) ==
    IF st.status # "running" THEN st
    ELSE IF st.retry_count >= MAX_RETRIES \/ script = <<>>
         THEN [st EXCEPT !.status = "none"]
    ELSE ResolverLoop(ResolverAttempt(st, channel_url, Head(script)),
                      channel_url, Tail(script))

\* get_channel_metadata(channel_url) against a script of responses, one pair
\* per attempt: status "returned" (value), "none" or "raised" (error)
get_channel_metadata(channel_url, script) ==
    ResolverLoop(ResolverStart, channel_url, script)

(***************************************************************************)
(* Classifier (src/services/openai_service.py).  One attempt of            *)
(* categorize_channel is answered by one service response:                 *)
(*   [kind |-> "reply", result |-> dict]  the JSON object parsed at l.158  *)
(*   [kind |-> "bad_json"]                json.loads raises JSONDecodeError*)
(*   [kind |-> "request_error", text |-> str]  a RequestException          *)
(*   [kind |-> "error"]                   any other exception (l.226)      *)
(***************************************************************************)
REQUIRED_SECTIONS == {"compliance", "content", "brand_safety", "targeting", "summary"}

\* lines 173-198
Flatten(result) ==
    LET compliance == result["compliance"]
        content == result["content"]
        brand_safety == result["brand_safety"]
        targeting == result["targeting"]
    IN  [is_children_content |-> Get(compliance, "is_children_content", FALSE),
         confidence |-> Get(compliance, "confidence", <<"low">>),
         reasoning |-> Get(compliance, "reasoning", <<>>),
         content_vertical |-> Get(content, "primary_vertical", <<"Other">>),
         content_niche |-> Get(content, "sub_niche", <<>>),
         content_format |-> Get(content, "format", <<>>),
         content_confidence |-> Get(content, "confidence", <<"low">>),
         brand_safety_score |-> Get(brand_safety, "overall_score", <<"moderate">>),
         controversial_topics |-> Get(brand_safety, "controversial_topics", FALSE),
         premium_suitable |-> Get(brand_safety, "premium_suitable", TRUE),
         safety_flags |-> Get(brand_safety, "flags", <<>>),
         geographic_focus |-> Get(targeting, "geographic_focus", <<"unknown">>),
         primary_language |-> Get(targeting, "primary_language", <<"unknown">>),
         purchase_intent |-> Get(targeting, "purchase_intent", <<"unknown">>),
         summary |-> result["summary"],
         full_analysis |-> result]

\* lines 237-241
DefaultResult ==
    [is_children_content |-> FALSE,
     confidence |-> <<"low">>,
     reasoning |-> <<"Failed to analyze due to API errors">>]

\* the words line 216 looks for
QuotaMarkers ==
    {<<"quota">>, <<"insufficient", "_", "quota">>, <<"billing">>, <<"rate", "_", "limit">>}

\* faulty variant: no request error is taken for a quota error
IsQuotaTextNever(text) == FALSE

\* line 216, on error_msg = str(error).lower()
IsQuotaText(text) ==
    LET error_msg == Lower(text)
    IN  \/ Contains(<<"quota">>, error_msg)
        \/ Contains(<<"insufficient", "_", "quota">>, error_msg)
        \/ Contains(<<"billing">>, error_msg)
        \/ Contains(<<"rate", "_", "limit">>, error_msg)

ClassifierStart ==
    [retry_count |-> 0, status |-> "running", value |-> EmptyDict, error |-> <<>>,
     requests |-> 0, api_calls_made |-> 0]

\* the state of a call that is followed request by request: sends counts the
\* HTTP requests, retries_left is what the adapter has left within one post
CallStart ==
    [retry_count |-> 0, status |-> "running", value |-> EmptyDict, error |-> <<>>,
     requests |-> 0, api_calls_made |-> 0, sends |-> 0, retries_left |-> 0,
     posting |-> FALSE, saw_complete |-> FALSE, saw_quota |-> FALSE]

\* faulty variant: a failed attempt that is not counted
CountRetryForgotten(st) == st

\* retry_count += 1 (lines 164, 209, 221, 228)
CountRetry(st) == [st EXCEPT !.retry_count = @ + 1]

\* one pass of the while loop of lines 108-231: session.post is called once
ClassifierAttempt(st, resp) ==
    LET posted == [st EXCEPT !.requests = @ + 1]
        counted == [posted EXCEPT !.api_calls_made = @ + 1]
    IN  CASE resp.kind = "reply" ->
               IF REQUIRED_SECTIONS \subseteq DOMAIN resp.result
               THEN [counted EXCEPT !.status = "returned", !.value = Flatten(resp.result)]
               ELSE CountRetry(counted)
          [] resp.kind = "bad_json" -> CountRetry(counted)
          [] resp.kind = "request_error" ->
               IF IsQuotaText(resp.text)
               THEN [posted EXCEPT !.status = "raised",
                                   !.error = <<"OpenAI", " ", "quota", " ", "exceeded", ":", " ">>
                                              \o resp.text]
               ELSE CountRetry(posted)
          [] OTHER -> CountRetry(counted)

\* leaving the loop when retry_count reaches max_retries: lines 233-241
ClassifierGiveUp(st) == [st EXCEPT !.status = "returned", !.value = DefaultResult]

RECURSIVE ClassifierLoop(_, _)
ClassifierLoop(st, script) ==
    IF st.status # "running" THEN st
    ELSE IF st.retry_count >= MAX_RETRIES \/ script = <<>> THEN ClassifierGiveUp(st)
    ELSE ClassifierLoop(ClassifierAttempt(st, Head(script)), Tail(script))

\* categorize_channel against a script of responses, one per attempt
categorize_channel(script) == ClassifierLoop(ClassifierStart, script)

(***************************************************************************)
(* The services' possible answers, and the results a call can have.        *)
(***************************************************************************)
QuotaReason == <<"quota", "Exceeded">>
ForbiddenReason == <<"forbidden">>

SearchResponses ==
    {[kind |-> "items"], [kind |-> "empty"], [kind |-> "error"],
     [kind |-> "http", status |-> 403, reason |-> QuotaReason],
     [kind |-> "http", status |-> 500, reason |-> <<"backend", " ", "error">>]}

DetailResponses ==
    {[kind |-> "items"], [kind |-> "empty"], [kind |-> "error"],
     [kind |-> "http", status |-> 403, reason |-> QuotaReason],
     [kind |-> "http", status |-> 403, reason |-> ForbiddenReason],
     [kind |-> "http", status |-> 404, reason |-> <<"not", " ", "found">>],
     [kind |-> "http", status |-> 500, reason |-> <<"backend", " ", "error">>]}

ResolverResponses == [search : SearchResponses, detail : DetailResponses]
ResolverScripts == [1..MAX_RETRIES -> ResolverResponses]

\* a complete reply of the reasoning service with the given verdict
FullReply(flag) ==
    [compliance |-> [is_children_content |-> flag,
                     confidence |-> <<"high">>,
                     reasoning |-> <<"model", " ", "reasoning">>],
     content |-> [primary_vertical |-> <<"Gaming">>, confidence |-> <<"medium">>],
     brand_safety |-> [overall_score |-> <<"safe">>, premium_suitable |-> FALSE],
     targeting |-> [primary_language |-> <<"en">>],
     summary |-> <<"summary">>]

\* a reply that lacks the summary section
PartialReply ==
    [compliance |-> [is_children_content |-> TRUE, confidence |-> <<"high">>,
                     reasoning |-> <<"model", " ", "reasoning">>],
     content |-> EmptyDict, brand_safety |-> EmptyDict, targeting |-> EmptyDict]

\* openai_service.py:40  status_forcelist
RETRY_FORCELIST == {429, 500, 502, 503, 504}

\* what one HTTP request of session.post can meet: a response with a status
\* (and, for 200, the content json.loads is given), or a connection failure.
\* text is str() of the exception the failure surfaces as.
TransportOutcomes ==
    {[kind |-> "response", status |-> 200, body |-> b, text |-> <<>>] :
        b \in {[kind |-> "reply", result |-> FullReply(TRUE)],
               [kind |-> "reply", result |-> FullReply(FALSE)],
               [kind |-> "reply", result |-> PartialReply],
               [kind |-> "bad_json"],
               [kind |-> "error"]}}
    \cup
    {[kind |-> "response", status |-> 500, body |-> [kind |-> "error"],
      text |-> <<"500", " ", "Server", " ", "Error">>],
     [kind |-> "response", status |-> 401, body |-> [kind |-> "error"],
      text |-> <<"401", " ", "Client", " ", "Error">>],
     [kind |-> "response", status |-> 429, body |-> [kind |-> "error"],
      text |-> <<"insufficient", "_", "quota">>],
     [kind |-> "response", status |-> 429, body |-> [kind |-> "error"],
      text |-> <<"Rate", "_", "Limit", " ", "reached">>],
     [kind |-> "connection_error", status |-> 0, body |-> [kind |-> "error"],
      text |-> <<"Connection", " ", "timed", " ", "out">>]}

\* the adapter mounted at lines 37-52 sends the request again, up to
\* RETRY_TOTAL times, after a connection failure or a status of the forcelist
Retriable(o) ==
    \/ o.kind = "connection_error"
    \/ o.kind = "response" /\ o.status \in RETRY_FORCELIST

\* what session.post and raise_for_status (lines 145-152) make of the last
\* outcome: raise_on_status=False hands a forcelist response back, and
\* raise_for_status raises for every status of 400 and above
PostResult(o) ==
    IF o.kind = "response" /\ o.status < 400
    THEN o.body
    ELSE [kind |-> "request_error", text |-> o.text]

ClassifierResponses == {PostResult(o) : o \in TransportOutcomes}

ClassifierScripts == [1..MAX_RETRIES -> ClassifierResponses]

\* what the caller sees of a finished call
Outcome(st) == [status |-> st.status, value |-> st.value, error |-> st.error]

ClassifierOutcomes == {Outcome(categorize_channel(s)) : s \in ClassifierScripts}

(***************************************************************************)
(* List Builder (src/utils/csv_processor.py, create_inclusion_list and     *)
(* create_exclusion_list).  A row is the mapping handed to writerow, each  *)
(* cell as the text csv writes for it: str() of the value.                 *)
(***************************************************************************)
NoData == <<"No data">>

\* str() of a bool and of an int
BoolText(b) == IF b THEN <<"True">> ELSE <<"False">>
IntText(n) == <<ToString(n)>>

\* d.get(k, 'No data') for a text value and for a bool value
TextCell(d, k) == Get(d, k, NoData)
BoolCell(d, k) == IF k \in DOMAIN d THEN BoolText(d[k]) ELSE NoData

\* ', '.join(values); the values of a run are kept as a set, joined here in
\* one of the orders list(set) may give
RECURSIVE JoinSet(_)
JoinSet(values) ==
    IF values = {} THEN <<>>
    ELSE LET x == CHOOSE v \in values : TRUE
         IN  IF values = {x} THEN x ELSE x \o <<", ">> \o JoinSet(values \ {x})

\* lines 482-483
TrafficCell(result, k) ==
    IF k \in DOMAIN result /\ result[k] # {} THEN JoinSet(result[k]) ELSE NoData

\* lines 355-356 and 448-449
ChannelIdCell(channel_url) ==
    IF Contains(<<"/", "channel", "/">>, channel_url)
    THEN LET pieces == Split(channel_url, "/") IN pieces[Len(pieces)]
    ELSE <<>>

TextColumns ==
    {"confidence", "reasoning", "content_vertical", "content_niche", "content_format",
     "brand_safety_score", "geographic_focus", "primary_language", "purchase_intent",
     "summary"}

InclusionColumns ==
    {"channel_name", "channel_url", "channel_id", "impressions", "is_children_content",
     "premium_suitable", "compliance_confidence", "compliance_is_children_content",
     "compliance_reasoning", "content_confidence", "content_format_detail",
     "content_primary_vertical", "content_sub_niche",
     "brand_safety_controversial_topics", "brand_safety_first_flag",
     "brand_safety_overall_score", "brand_safety_premium_suitable",
     "full_analysis_summary"} \cup TextColumns

ExclusionColumns == InclusionColumns \cup {"advertisers", "insertion_orders"}

\* lines 354-402 and 447-497: the cell of one column for one result
ListCell(result, k) ==
    LET channel_url == Get(result, "channel_url", <<>>)
        full_analysis == Get(result, "full_analysis", EmptyDict)
        compliance == Get(full_analysis, "compliance", EmptyDict)
        content == Get(full_analysis, "content", EmptyDict)
        brand_safety == Get(full_analysis, "brand_safety", EmptyDict)
        flags == Get(brand_safety, "flags", <<>>)
    IN  CASE k = "channel_name" -> TextCell(result, k)
          [] k = "channel_url" -> channel_url
          [] k = "channel_id" -> ChannelIdCell(channel_url)
          [] k = "impressions" -> IntText(Get(result, k, 0))
          [] k \in {"advertisers", "insertion_orders"} -> TrafficCell(result, k)
          [] k \in {"is_children_content", "premium_suitable"} -> BoolCell(result, k)
          [] k \in TextColumns -> TextCell(result, k)
          [] k = "compliance_confidence" -> TextCell(compliance, "confidence")
          [] k = "compliance_is_children_content" -> BoolCell(compliance, "is_children_content")
          [] k = "compliance_reasoning" -> TextCell(compliance, "reasoning")
          [] k = "content_confidence" -> TextCell(content, "confidence")
          [] k = "content_format_detail" -> TextCell(content, "format")
          [] k = "content_primary_vertical" -> TextCell(content, "primary_vertical")
          [] k = "content_sub_niche" -> TextCell(content, "sub_niche")
          [] k = "brand_safety_controversial_topics" ->
                BoolCell(brand_safety, "controversial_topics")
          [] k = "brand_safety_first_flag" -> IF flags # <<>> THEN flags[1] ELSE NoData
          [] k = "brand_safety_overall_score" -> TextCell(brand_safety, "overall_score")
          [] k = "brand_safety_premium_suitable" -> BoolCell(brand_safety, "premium_suitable")
          [] k = "full_analysis_summary" -> TextCell(full_analysis, "summary")

\* r.get('is_children_content') taken as a condition: an absent flag is None
IsChildren(r) == Get(r, "is_children_content", FALSE)

\* faulty variant: only the results whose flag is present and False
SafeChannelsExplicit(results) ==
    SelectSeq(results, LAMBDA r : "is_children_content" \in DOMAIN r /\ ~r["is_children_content"])

\* line 311
SafeChannels(results) == SelectSeq(results, LAMBDA r : ~IsChildren(r))

\* line 423
ChildrenChannels(results) == SelectSeq(results, LAMBDA r : IsChildren(r))

\* lines 299-409: the rows written and the count returned
create_inclusion_list(results) ==
    LET safe_channels == SafeChannels(results)
    IN  [rows |-> [i \in 1..Len(safe_channels) |->
                      [k \in InclusionColumns |-> ListCell(safe_channels[i], k)]],
         count |-> Len(safe_channels)]

\* lines 411-504
create_exclusion_list(results) ==
    LET children_channels == ChildrenChannels(results)
    IN  [rows |-> [i \in 1..Len(children_channels) |->
                      [k \in ExclusionColumns |-> ListCell(children_channels[i], k)]],
         count |-> Len(children_channels)]

(***************************************************************************)
(* Inputs of a run: the report rows, the configured keywords and the       *)
(* documents earlier runs left in the store.                               *)
(***************************************************************************)
\* the placement cell of the row that cites channel number i
PlacementOf(i) ==
    CASE i = 1 -> UrlPrefix \o <<"channel", "/", "UC", "x">>
      [] i = 2 -> UrlPrefix \o <<"@", "a", ".", "b">>
      [] i = 3 -> UrlPrefix \o <<"@", "a", "_", "b">>
      [] i = 4 -> UrlPrefix \o <<"c", "/", "n">>
      [] OTHER -> UrlPrefix \o <<"user", "/", "n">>

KidsName == <<"M", "y", " ", "K", "i", "d", "s">>
PlainName == <<"T", "V">>
UnknownName == <<" ", "U", "n", "k", "n", "o", "w", "n">>
PlacementNames == {KidsName, PlainName, UnknownName}

\* report rows as csv.DictReader yields them
ReportRow(i, name, impressions) ==
    [k \in {"Placement", "Placement Name", "Impressions", "Advertiser", "Insertion Order"} |->
        CASE k = "Placement" -> PlacementOf(i)
          [] k = "Placement Name" -> name
          [] k = "Impressions" -> impressions
          [] k = "Advertiser" -> <<"adv">>
          [] k = "Insertion Order" -> <<"io">>]

\* one row per channel; the last row may carry more impressions than the others
ReportRowsSets ==
    {r \in [1..MaxChannels -> [name : PlacementNames, impressions : {<<"1">>, <<"2">>}]] :
        \A i \in 1..(MaxChannels - 1) : r[i].impressions = <<"1">>}

ReportRows(r) == [i \in 1..MaxChannels |-> ReportRow(i, r[i].name, r[i].impressions)]

KeywordLists == {<< <<"t", "o", "y">>, <<"K", "I", "D">> >>}

\* a record an earlier run classified and stored for channel number i
EarlierRecord(i, flag) ==
    [channel_url |-> _extract_channel_url(PlacementOf(i)),
     channel_name |-> <<"earlier", " ", "name">>,
     is_children_content |-> flag,
     confidence |-> <<"medium">>,
     reasoning |-> <<"earlier", " ", "verdict">>]

\* the stores earlier runs can have left: empty, or one stored verdict
EarlierStores ==
    {EmptyDict} \cup
    {batch_save_categories(EmptyDict, <<EarlierRecord(i, flag)>>, 0).docs :
        i \in 1..MaxChannels, flag \in BOOLEAN}

\* the clock readings that tell the deadline tests of main.py apart
ClockReadings ==
    {0, MAX_RUNTIME - RESERVE, MAX_RUNTIME - RESERVE + 1, MAX_RUNTIME + 1}

(***************************************************************************)
(* State of the workflow (process_dv360_report, src/main.py).              *)
(***************************************************************************)
VARIABLES
    pc,                     \* where the run stands
    keywords,               \* config['keywords']
    channel_data,           \* the Extractor's mapping, as its entries in order
    docs,                   \* the Firestore collection
    elapsed,                \* the latest reading of (now - start_time)
    keyword_matched,        \* step 5
    needs_analysis,         \* step 5
    cached_results,         \* step 6
    final_results,
    auto_flagged_new,
    channels_to_analyze,
    quota_exceeded,
    batch_num,              \* number of the batch of step 7 in progress
    batch_pos,              \* channels of that batch already gone through
    batch_results,          \* results of process_channel_batch_combined
    processed_results,
    processed_count,        \* step 8
    firestore_auto_flagged, \* step 8
    second_run,             \* TRUE in a run that follows a finished one
    resolver_log,           \* history: URLs handed to get_channel_metadata in step 7
    classifier_log,         \* history: URLs whose metadata went to categorize_channel
    quota_signal_batch,     \* history: batch in which a quota condition was first raised
    deadline_batch,         \* history: batch whose pre-check found the deadline passed
    write_failed,           \* history: a store write of this run was refused
    written_keys,           \* history: document ids this run wrote
    docs_before,            \* history: the collection when this run began
    default_urls,           \* history: URLs that got the classifier's default verdict
    call,                   \* a call of categorize_channel followed request by request
    lookup,                 \* a call of get_channel_metadata followed attempt by attempt
    rows,                   \* the rows handed to extract_youtube_channels
    extracted,              \* what extract_youtube_channels made of them
    store_op                \* the store operations made on docs, and their answers

vars ==
    <<pc, keywords, channel_data, docs, elapsed, keyword_matched, needs_analysis,
      cached_results, final_results, auto_flagged_new, channels_to_analyze,
      quota_exceeded, batch_num, batch_pos, batch_results, processed_results,
      processed_count, firestore_auto_flagged, second_run, resolver_log,
      classifier_log, quota_signal_batch, deadline_batch, write_failed,
      written_keys, docs_before, default_urls, call, lookup, rows, extracted,
      store_op>>

\* the values every run starts from
FreshLocals ==
    /\ elapsed = 0
    /\ keyword_matched = <<>>
    /\ needs_analysis = <<>>
    /\ cached_results = EmptyDict
    /\ final_results = <<>>
    /\ auto_flagged_new = <<>>
    /\ channels_to_analyze = <<>>
    /\ quota_exceeded = FALSE
    /\ batch_num = 0
    /\ batch_pos = 0
    /\ batch_results = <<>>
    /\ processed_results = <<>>
    /\ processed_count = 0
    /\ firestore_auto_flagged = <<>>
    /\ resolver_log = <<>>
    /\ classifier_log = <<>>
    /\ quota_signal_batch = 0
    /\ deadline_batch = 0
    /\ write_failed = FALSE
    /\ written_keys = {}

FreshRun ==
    /\ pc = "start"
    /\ FreshLocals

\* the variables of the services followed on their own, while the workflow runs
UnitsIdle ==
    /\ call = CallStart
    /\ lookup = EmptyDict
    /\ rows = <<>>
    /\ extracted = EmptyDict
    /\ store_op = EmptyDict

Init ==
    /\ FreshRun
    /\ UnitsIdle
    /\ keywords \in KeywordLists
    /\ \E r \in ReportRowsSets :
          channel_data = extract_youtube_channels(ReportRows(r)).channels
    /\ docs \in EarlierStores
    /\ docs_before = docs
    /\ second_run = FALSE
    /\ default_urls = {}

unit_vars == <<call, lookup, rows, extracted, store_op>>

pipeline_vars ==
    <<pc, keywords, channel_data, docs, elapsed, keyword_matched, needs_analysis,
      cached_results, final_results, auto_flagged_new, channels_to_analyze,
      quota_exceeded, batch_num, batch_pos, batch_results, processed_results,
      processed_count, firestore_auto_flagged, second_run, resolver_log,
      classifier_log, quota_signal_batch, deadline_batch, write_failed,
      written_keys, docs_before, default_urls>>

\* datetime.now() - start_time never runs backwards
ClockAfter(t) == {u \in ClockReadings : u >= t}

Least(S) == CHOOSE x \in S : \A y \in S : x <= y

\* The readings a test of the clock can meet after the reading t, passing
\* being the readings that pass the test.  A reading is only ever compared
\* with a threshold, so for each answer of the test the least reading that
\* gives it stands for all of them: it leaves every later reading possible
\* that any of them leaves possible.
ReadClock(t, passing) ==
    LET yes == ClockAfter(t) \cap passing
        no == ClockAfter(t) \ passing
    IN  (IF yes = {} THEN {} ELSE {Least(yes)}) \cup (IF no = {} THEN {} ELSE {Least(no)})

Urls(channels) == [i \in 1..Len(channels) |-> channels[i].url]
Range(seq) == {seq[i] : i \in 1..Len(seq)}

(***************************************************************************)
(* Steps 5 and 6: the Router (main.py lines 194-270).                      *)
(***************************************************************************)
\* faulty variant: the match without the lower-casing of lines 199 and 201
KeywordHitExact(placement_name, kws) ==
    \E i \in 1..Len(kws) : Contains(kws[i], placement_name)

\* line 201: any(keyword.lower() in placement_name for keyword in keywords)
KeywordHit(placement_name, kws) ==
    \E i \in 1..Len(kws) : Contains(Lower(kws[i]), Lower(placement_name))

\* faulty variant: a cached result that takes the flag to be set
CachedResultFlagged(ch, cached) ==
    [channel_url |-> ch.url,
     channel_name |-> cached["channel_name"],
     is_children_content |-> TRUE,
     confidence |-> cached["confidence"],
     reasoning |-> cached["reasoning"],
     impressions |-> ch.impressions,
     advertisers |-> ch.advertisers,
     insertion_orders |-> ch.insertion_orders,
     cached |-> TRUE]

\* lines 226-236 and 256-266
CachedResult(ch, cached) ==
    [channel_url |-> ch.url,
     channel_name |-> cached["channel_name"],
     is_children_content |-> cached["is_children_content"],
     confidence |-> cached["confidence"],
     reasoning |-> cached["reasoning"],
     impressions |-> ch.impressions,
     advertisers |-> ch.advertisers,
     insertion_orders |-> ch.insertion_orders,
     cached |-> TRUE]

\* lines 239-245
AutoFlagEntry(ch) ==
    [channel_url |-> ch.url,
     placement_name |-> ch.placement_name,
     impressions |-> ch.impressions,
     advertisers |-> ch.advertisers,
     insertion_orders |-> ch.insertion_orders]

\* whether line 223 / line 250 finds the URL among the cache hits
IsCacheHit(url, hits) == url \in DOMAIN hits

\* the entries of channels that are cache hits, as run results, in order
RECURSIVE CachedOf(_, _)
CachedOf(channels, hits) ==
    IF channels = <<>> THEN <<>>
    ELSE (IF IsCacheHit(Head(channels).url, hits)
          THEN <<CachedResult(Head(channels), hits[Head(channels).url])>>
          ELSE <<>>) \o CachedOf(Tail(channels), hits)

\* faulty variant: the tests of lines 238 and 250 left out
MissesOfUnfiltered(channels, hits) == channels

\* the entries of channels that are no cache hits, in order
RECURSIVE MissesOf(_, _)
MissesOf(channels, hits) ==
    IF channels = <<>> THEN <<>>
    ELSE (IF IsCacheHit(Head(channels).url, hits) THEN <<>> ELSE <<Head(channels)>>)
         \o MissesOf(Tail(channels), hits)

Route ==
    /\ pc = "start"
    /\ LET Hit(ch) == KeywordHit(ch.placement_name, keywords)
           Miss(ch) == ~KeywordHit(ch.placement_name, keywords)
           matched == SelectSeq(channel_data, Hit)
           unmatched == SelectSeq(channel_data, Miss)
           hits == batch_get_cached_categories(docs, Urls(channel_data))
           flagged == MissesOf(matched, hits)
           to_analyze == Urls(MissesOf(unmatched, hits))
       IN  /\ keyword_matched' = matched
           /\ needs_analysis' = unmatched
           /\ cached_results' = hits
           /\ final_results' = CachedOf(matched, hits) \o CachedOf(unmatched, hits)
           /\ auto_flagged_new' = [i \in 1..Len(flagged) |-> AutoFlagEntry(flagged[i])]
           /\ channels_to_analyze' = to_analyze
           /\ pc' = IF to_analyze # <<>> THEN "step7" ELSE "step8"
    /\ UNCHANGED <<unit_vars, keywords, channel_data, docs, elapsed, quota_exceeded, batch_num,
                   batch_pos, batch_results, processed_results, processed_count,
                   firestore_auto_flagged, second_run, resolver_log, classifier_log,
                   quota_signal_batch, deadline_batch, write_failed, written_keys,
                   docs_before, default_urls>>

(***************************************************************************)
(* Step 7: the Batch Scheduler (main.py lines 272-327) and                 *)
(* process_channel_batch_combined (lines 29-73).                           *)
(***************************************************************************)
PipelineUrls == {_extract_channel_url(PlacementOf(i)) : i \in 1..MaxChannels}

\* what get_channel_metadata can come to for each URL of the report
ResolverOutcomes ==
    [u \in PipelineUrls |-> {Outcome(get_channel_metadata(u, s)) : s \in ResolverScripts}]

Min(a, b) == IF a < b THEN a ELSE b

\* faulty variant: a slice that runs to the end of the list
BatchToEnd(to_analyze, k) ==
    SubSeq(to_analyze, (k - 1) * BATCH_SIZE + 1, Len(to_analyze))

\* lines 285-286: batches[k - 1]
Batch(to_analyze, k) ==
    SubSeq(to_analyze, (k - 1) * BATCH_SIZE + 1, Min(k * BATCH_SIZE, Len(to_analyze)))

\* len(batches)
NumBatches(to_analyze) == (Len(to_analyze) + BATCH_SIZE - 1) \div BATCH_SIZE

\* line 294
DeadlinePassed(t) == t > MAX_RUNTIME

\* lines 291-299: the head of the batch loop
BatchCheck ==
    /\ pc = "step7"
    /\ IF batch_num = NumBatches(channels_to_analyze)
       THEN /\ pc' = "merge"
            /\ UNCHANGED <<elapsed, batch_num, batch_pos, batch_results, deadline_batch>>
       ELSE \E t \in ReadClock(elapsed, {u \in ClockReadings : DeadlinePassed(u)}) :
               /\ elapsed' = t
               /\ IF DeadlinePassed(t)
                  THEN /\ pc' = "merge"
                       /\ deadline_batch' = batch_num + 1
                       /\ UNCHANGED <<batch_num, batch_pos, batch_results>>
                  ELSE /\ pc' = "batch"
                       /\ batch_num' = batch_num + 1
                       /\ batch_pos' = 0
                       /\ batch_results' = <<>>
                       /\ UNCHANGED deadline_batch
    /\ UNCHANGED <<unit_vars, keywords, channel_data, docs, keyword_matched, needs_analysis,
                   cached_results, final_results, auto_flagged_new,
                   channels_to_analyze, quota_exceeded, processed_results,
                   processed_count, firestore_auto_flagged, second_run, resolver_log,
                   classifier_log, quota_signal_batch, write_failed, written_keys,
                   docs_before, default_urls>>

\* lines 58-59
Categorization(channel_url, metadata, value) ==
    [k \in DOMAIN value \cup {"channel_url", "channel_name"} |->
        IF k = "channel_url" THEN channel_url
        ELSE IF k = "channel_name" THEN metadata["channel_name"]
        ELSE value[k]]

\* faulty variant: the write of line 64 left out
CheckpointWriteSkipped(store, categorization, fail_at) == store

\* line 64 within the try of lines 46-71: the store after the write of one
\* categorization (fail_at = 1: the commit is refused and the handler of line 68
\* swallows the error)
CheckpointWrite(store, categorization, fail_at) ==
    batch_save_categories(store, <<categorization>>, fail_at).docs

\* one pass of the loop of lines 45-71 for channel_url, the resolver answering
\* m and the classifier c: the results list and the store after it
ChannelPass(results, store, channel_url, m, c, fail_at) ==
    IF m.status # "returned" THEN [results |-> results, docs |-> store]
    ELSE IF c.status # "returned" THEN [results |-> results, docs |-> store]
    ELSE LET categorization == Categorization(channel_url, m.value, c.value)
         IN  [results |-> Append(results, categorization),
              docs |-> CheckpointWrite(store, categorization, fail_at)]

ProcessChannel ==
    /\ pc = "batch"
    /\ batch_pos < Len(Batch(channels_to_analyze, batch_num))
    /\ LET channel_url == Batch(channels_to_analyze, batch_num)[batch_pos + 1]
       IN  \E m \in ResolverOutcomes[channel_url], c \in ClassifierOutcomes,
              fail_at \in {0, 1} :
              LET after == ChannelPass(batch_results, docs, channel_url, m, c, fail_at)
                  classified == m.status = "returned"
                  stored == classified /\ c.status = "returned"
                  signal == m.status = "raised" \/ (classified /\ c.status = "raised")
              IN  /\ batch_results' = after.results
                  /\ docs' = after.docs
                  /\ batch_pos' = batch_pos + 1
                  /\ resolver_log' = Append(resolver_log, channel_url)
                  /\ classifier_log' =
                        IF classified THEN Append(classifier_log, channel_url)
                        ELSE classifier_log
                  /\ quota_signal_batch' =
                        IF signal /\ quota_signal_batch = 0 THEN batch_num
                        ELSE quota_signal_batch
                  /\ write_failed' = (write_failed \/ (stored /\ fail_at = 1))
                  /\ written_keys' =
                        IF stored /\ fail_at = 0
                        THEN written_keys \cup {_sanitize_doc_id(channel_url)}
                        ELSE written_keys
                  /\ default_urls' =
                        IF stored /\ c.value = DefaultResult
                        THEN default_urls \cup {channel_url}
                        ELSE default_urls
    /\ UNCHANGED <<unit_vars, pc, keywords, channel_data, elapsed, keyword_matched,
                   needs_analysis, cached_results, final_results, auto_flagged_new,
                   channels_to_analyze, quota_exceeded, batch_num, processed_results,
                   processed_count, firestore_auto_flagged, second_run,
                   deadline_batch, docs_before>>

\* lines 302-305: the batch function returned, its results are kept
BatchDone ==
    /\ pc = "batch"
    /\ batch_pos = Len(Batch(channels_to_analyze, batch_num))
    /\ processed_results' = processed_results \o batch_results
    /\ pc' = "step7"
    /\ UNCHANGED <<unit_vars, keywords, channel_data, docs, elapsed, keyword_matched,
                   needs_analysis, cached_results, final_results, auto_flagged_new,
                   channels_to_analyze, quota_exceeded, batch_num, batch_pos,
                   batch_results, processed_count, firestore_auto_flagged, second_run,
                   resolver_log, classifier_log, quota_signal_batch, deadline_batch,
                   write_failed, written_keys, docs_before, default_urls>>

\* lines 317-324 for one result
FreshResult(result, channels) ==
    LET i == IndexOf(channels, result["channel_url"])
        extra == IF i = 0 THEN {} ELSE {"impressions", "advertisers", "insertion_orders"}
    IN  [k \in DOMAIN result \cup extra \cup {"cached"} |->
            IF k = "cached" THEN FALSE
            ELSE IF k = "impressions" /\ i # 0 THEN channels[i].impressions
            ELSE IF k = "advertisers" /\ i # 0 THEN channels[i].advertisers
            ELSE IF k = "insertion_orders" /\ i # 0 THEN channels[i].insertion_orders
            ELSE result[k]]

\* lines 316-327
Merge ==
    /\ pc = "merge"
    /\ final_results' = final_results \o
          [i \in 1..Len(processed_results) |->
              FreshResult(processed_results[i], needs_analysis)]
    /\ pc' = "step8"
    /\ UNCHANGED <<unit_vars, keywords, channel_data, docs, elapsed, keyword_matched,
                   needs_analysis, cached_results, auto_flagged_new,
                   channels_to_analyze, quota_exceeded, batch_num, batch_pos,
                   batch_results, processed_results, processed_count,
                   firestore_auto_flagged, second_run, resolver_log, classifier_log,
                   quota_signal_batch, deadline_batch, write_failed, written_keys,
                   docs_before, default_urls>>

(***************************************************************************)
(* Step 8: the keyword auto-flag sweep (main.py lines 329-397).            *)
(***************************************************************************)
\* faulty variant: the sweep entered whatever the clock reads
EnoughTimeAlways(t) == TRUE

\* line 334 / line 395
EnoughTimeLeft(t) == t < MAX_RUNTIME - RESERVE

\* line 347
ReserveReached(t) == t > MAX_RUNTIME - RESERVE

\* lines 331-341 and 395-397
SweepEntry ==
    /\ pc = "step8"
    /\ \E t \in ReadClock(elapsed, {u \in ClockReadings : EnoughTimeLeft(u)}) :
          /\ elapsed' = t
          /\ IF auto_flagged_new # <<>> /\ EnoughTimeLeft(t)
             THEN pc' = "sweep"
             ELSE pc' = "step9"
    /\ processed_count' = 0
    /\ firestore_auto_flagged' = <<>>
    /\ UNCHANGED <<unit_vars, keywords, channel_data, docs, keyword_matched, needs_analysis,
                   cached_results, final_results, auto_flagged_new,
                   channels_to_analyze, quota_exceeded, batch_num, batch_pos,
                   batch_results, processed_results, second_run, resolver_log,
                   classifier_log, quota_signal_batch, deadline_batch, write_failed,
                   written_keys, docs_before, default_urls>>

\* line 375 / 388
AutoFlagReasoning(placement_name) ==
    <<"Auto-flagged based on keyword match in placement name: ", "'">>
        \o placement_name \o <<"'">>

\* lines 383-389
AutoFlagRecord(auto_flag, channel_name) ==
    [channel_url |-> auto_flag.channel_url,
     channel_name |-> channel_name,
     is_children_content |-> TRUE,
     confidence |-> <<"high">>,
     reasoning |-> AutoFlagReasoning(auto_flag.placement_name)]

\* lines 370-380
AutoFlagResult(auto_flag, channel_name) ==
    [channel_url |-> auto_flag.channel_url,
     channel_name |-> channel_name,
     is_children_content |-> TRUE,
     confidence |-> <<"high">>,
     reasoning |-> AutoFlagReasoning(auto_flag.placement_name),
     impressions |-> auto_flag.impressions,
     advertisers |-> auto_flag.advertisers,
     insertion_orders |-> auto_flag.insertion_orders,
     cached |-> FALSE]

\* lines 356-367: the name taken from the resolver's answer m
SweepName(auto_flag, m) ==
    IF m.status = "returned" THEN m.value["channel_name"] ELSE auto_flag.placement_name

\* line 360
MentionsQuota(text) == Contains(<<"quota">>, Lower(text))

\* lines 352-389 for the next entry of auto_flagged_new
SweepProcess ==
    LET auto_flag == auto_flagged_new[processed_count + 1]
    IN  \E m \in ResolverOutcomes[auto_flag.channel_url] :
           /\ processed_count' = processed_count + 1
           /\ quota_exceeded' =
                 (quota_exceeded \/ (m.status = "raised" /\ MentionsQuota(m.error)))
           /\ final_results' =
                 Append(final_results, AutoFlagResult(auto_flag, SweepName(auto_flag, m)))
           /\ firestore_auto_flagged' =
                 Append(firestore_auto_flagged,
                        AutoFlagRecord(auto_flag, SweepName(auto_flag, m)))
           /\ pc' = pc

\* lines 343-350: one pass of the sweep's loop, the clock read every
\* SWEEP_CHECK_EVERY entries
SweepItem ==
    /\ pc = "sweep"
    /\ processed_count < Len(auto_flagged_new)
    /\ IF processed_count > 0 /\ processed_count % SWEEP_CHECK_EVERY = 0
       THEN \E t \in ReadClock(elapsed, {u \in ClockReadings : ReserveReached(u)}) :
               /\ elapsed' = t
               /\ IF ReserveReached(t)
                  THEN /\ pc' = "sweep_save"
                       /\ UNCHANGED <<processed_count, quota_exceeded, final_results,
                                      firestore_auto_flagged>>
                  ELSE SweepProcess
       ELSE /\ SweepProcess
            /\ UNCHANGED elapsed
    /\ UNCHANGED <<unit_vars, keywords, channel_data, docs, keyword_matched, needs_analysis,
                   cached_results, auto_flagged_new, channels_to_analyze, batch_num,
                   batch_pos, batch_results, processed_results, second_run,
                   resolver_log, classifier_log, quota_signal_batch, deadline_batch,
                   write_failed, written_keys, docs_before, default_urls>>

\* the loop of line 343 ran out of entries
SweepDone ==
    /\ pc = "sweep"
    /\ processed_count = Len(auto_flagged_new)
    /\ pc' = "sweep_save"
    /\ UNCHANGED <<unit_vars, keywords, channel_data, docs, elapsed, keyword_matched,
                   needs_analysis, cached_results, final_results, auto_flagged_new,
                   channels_to_analyze, quota_exceeded, batch_num, batch_pos,
                   batch_results, processed_results, processed_count,
                   firestore_auto_flagged, second_run, resolver_log, classifier_log,
                   quota_signal_batch, deadline_batch, write_failed, written_keys,
                   docs_before, default_urls>>

\* lines 391-393; a refused write leaves through the guard of line 554
SweepSave ==
    /\ pc = "sweep_save"
    /\ \E fail_at \in {0, 1} :
          LET saved == batch_save_categories(docs, firestore_auto_flagged, fail_at)
          IN  /\ docs' = saved.docs
              /\ pc' = IF saved.raised THEN "error" ELSE "step9"
              /\ write_failed' = (write_failed \/ saved.raised)
              /\ written_keys' =
                    IF saved.raised THEN written_keys
                    ELSE written_keys \cup
                         {_sanitize_doc_id(firestore_auto_flagged[i].channel_url) :
                             i \in 1..Len(firestore_auto_flagged)}
    /\ UNCHANGED <<unit_vars, keywords, channel_data, elapsed, keyword_matched, needs_analysis,
                   cached_results, final_results, auto_flagged_new,
                   channels_to_analyze, quota_exceeded, batch_num, batch_pos,
                   batch_results, processed_results, processed_count,
                   firestore_auto_flagged, second_run, resolver_log, classifier_log,
                   quota_signal_batch, deadline_batch, docs_before, default_urls>>

\* lines 476-488: what step 11 puts into the notification, from the flag the
\* steps before it left; the default subject of line 480
EMAIL_SUBJECT == <<"DV360", " ", "Children's", " ", "Channel", " ", "Analysis", " ", "Results">>

\* lines 480-482
email_subject(quota) ==
    IF quota THEN EMAIL_SUBJECT \o <<" [PARTIAL]">> ELSE EMAIL_SUBJECT

\* lines 477-479: the warning block, empty unless the flag is set
partial_warning(quota, unprocessed_count) ==
    IF quota
    THEN <<"Partial Results:", " ", unprocessed_count, " ", "channels were not processed">>
    ELSE <<>>

\* line 478
UnprocessedCount ==
    Len(channels_to_analyze)
        - Cardinality({i \in 1..Len(final_results) : ~final_results[i].cached})

\* the methods class FirestoreService defines (firestore_service.py 13-290)
FirestoreOperations ==
    {"__init__", "get_cached_category", "save_category", "batch_get_cached_categories",
     "batch_save_categories", "update_category", "delete_category", "get_stats",
     "_sanitize_doc_id", "query_children_channels"}

\* line 408: step 9 opens with firestore_service.get_all_channels(); the
\* attribute lookup raises AttributeError, which the guard of line 554 turns
\* into the error status
ListBuild ==
    /\ pc = "step9"
    /\ "get_all_channels" \notin FirestoreOperations
    /\ pc' = "error"
    /\ UNCHANGED <<unit_vars, keywords, channel_data, docs, elapsed, keyword_matched,
                   needs_analysis, cached_results, final_results, auto_flagged_new,
                   channels_to_analyze, quota_exceeded, batch_num, batch_pos,
                   batch_results, processed_results, processed_count,
                   firestore_auto_flagged, second_run, resolver_log, classifier_log,
                   quota_signal_batch, deadline_batch, write_failed, written_keys,
                   docs_before, default_urls>>

\* the run has left steps 5-8
RunOver == pc \in {"step9", "error"}

\* the entry point is invoked again on the same report, the store as it is
Rerun ==
    /\ RunOver
    /\ ~second_run
    /\ second_run' = TRUE
    /\ docs_before' = docs
    /\ pc' = "start"
    /\ elapsed' = 0
    /\ keyword_matched' = <<>>
    /\ needs_analysis' = <<>>
    /\ cached_results' = EmptyDict
    /\ final_results' = <<>>
    /\ auto_flagged_new' = <<>>
    /\ channels_to_analyze' = <<>>
    /\ quota_exceeded' = FALSE
    /\ batch_num' = 0
    /\ batch_pos' = 0
    /\ batch_results' = <<>>
    /\ processed_results' = <<>>
    /\ processed_count' = 0
    /\ firestore_auto_flagged' = <<>>
    /\ resolver_log' = <<>>
    /\ classifier_log' = <<>>
    /\ quota_signal_batch' = 0
    /\ deadline_batch' = 0
    /\ write_failed' = FALSE
    /\ written_keys' = {}
    /\ UNCHANGED <<unit_vars, keywords, channel_data, docs, default_urls>>

(***************************************************************************)
(* One call of categorize_channel, followed HTTP request by HTTP request.  *)
(***************************************************************************)
\* pass of the loop of lines 108-231 up to session.post (line 145)
Post ==
    /\ pc = "categorize_channel"
    /\ call.status = "running"
    /\ ~call.posting
    /\ call.retry_count < MAX_RETRIES
    /\ call' = [call EXCEPT !.posting = TRUE, !.retries_left = RETRY_TOTAL]
    /\ UNCHANGED <<pipeline_vars, lookup, rows, extracted, store_op>>

\* one HTTP request of the adapter, and, when it is the last one of the post,
\* the rest of the pass (lines 152-231)
Send ==
    /\ pc = "categorize_channel"
    /\ call.posting
    /\ \E o \in TransportOutcomes :
          LET sent == [call EXCEPT !.sends = @ + 1]
          IN  IF Retriable(o) /\ call.retries_left > 0
              THEN call' = [sent EXCEPT !.retries_left = @ - 1]
              ELSE call' = [ClassifierAttempt(sent, PostResult(o)) EXCEPT
                               !.posting = FALSE,
                               !.saw_complete = @ \/ (/\ PostResult(o).kind = "reply"
                                                      /\ REQUIRED_SECTIONS \subseteq
                                                             DOMAIN PostResult(o).result),
                               !.saw_quota = @ \/ (/\ PostResult(o).kind = "request_error"
                                                   /\ \E w \in QuotaMarkers :
                                                         Contains(w, Lower(o.text)))]
    /\ UNCHANGED <<pipeline_vars, lookup, rows, extracted, store_op>>

\* lines 233-241
GiveUp ==
    /\ pc = "categorize_channel"
    /\ call.status = "running"
    /\ ~call.posting
    /\ call.retry_count >= MAX_RETRIES
    /\ call' = ClassifierGiveUp(call)
    /\ UNCHANGED <<pipeline_vars, lookup, rows, extracted, store_op>>

(***************************************************************************)
(* One call of get_channel_metadata, followed attempt by attempt.          *)
(***************************************************************************)
\* a channel URL of every shape the extractor builds
ResolverUrls == {_extract_channel_url(PlacementOf(i)) : i \in 1..5}

\* the call as it starts for channel_url; beside the state of the loop it
\* keeps what the directory service answered so far
LookupStart(channel_url) ==
    [url |-> channel_url, retry_count |-> 0, status |-> "running", value |-> EmptyDict,
     error |-> <<>>, search_calls |-> 0, detail_calls |-> 0, attempts |-> 0,
     saw_quota |-> FALSE, saw_not_found |-> FALSE, last_transient |-> FALSE,
     search_found_none |-> FALSE]

IsQuotaAnswer(r) == r.kind = "http" /\ r.status = 403 /\ r.reason = QuotaReason
IsNotFoundAnswer(r) == r.kind = "empty" \/ (r.kind = "http" /\ r.status = 404)
IsTransientAnswer(r) == r.kind = "error" \/ (r.kind = "http" /\ r.status >= 500)

\* one pass of the while loop of lines 115-190
Attempt ==
    /\ pc = "get_channel_metadata"
    /\ lookup.status = "running"
    /\ lookup.retry_count < MAX_RETRIES
    /\ \E resp \in ResolverResponses :
          LET after == ResolverAttempt(lookup, lookup.url, resp)
              searched == after.search_calls > lookup.search_calls
              fetched == after.detail_calls > lookup.detail_calls
              Met(Is(_)) == (searched /\ Is(resp.search)) \/ (fetched /\ Is(resp.detail))
          IN  lookup' = [after EXCEPT
                            !.attempts = @ + 1,
                            !.saw_quota = @ \/ Met(IsQuotaAnswer),
                            !.saw_not_found = @ \/ Met(IsNotFoundAnswer),
                            !.last_transient = Met(IsTransientAnswer),
                            !.search_found_none = @ \/ (searched /\ resp.search.kind = "empty")]
    /\ UNCHANGED <<pipeline_vars, call, rows, extracted, store_op>>

\* line 192: the loop ran out of attempts
Exhausted ==
    /\ pc = "get_channel_metadata"
    /\ lookup.status = "running"
    /\ lookup.retry_count >= MAX_RETRIES
    /\ lookup' = [lookup EXCEPT !.status = "none"]
    /\ UNCHANGED <<pipeline_vars, call, rows, extracted, store_op>>

NextResolver ==
    \/ Attempt
    \/ Exhausted

InitResolver ==
    /\ pc = "get_channel_metadata"
    /\ FreshLocals
    /\ keywords = <<>>
    /\ channel_data = <<>>
    /\ docs = EmptyDict
    /\ docs_before = EmptyDict
    /\ second_run = FALSE
    /\ default_urls = {}
    /\ call = CallStart
    /\ lookup \in {LookupStart(u) : u \in ResolverUrls}
    /\ rows = <<>>
    /\ extracted = EmptyDict
    /\ store_op = EmptyDict

\* every call of the directory service returns or raises
SpecResolver == InitResolver /\ [][NextResolver]_vars /\ WF_vars(NextResolver)

(***************************************************************************)
(* One call of extract_youtube_channels on the rows of a report.           *)
(***************************************************************************)
\* the longest report the extractor is followed on
MaxRows == 3

\* a row citing channel number i under a name, with an impressions cell and
\* the advertiser and insertion order it was bought for
ExtractorRow(i, name, impressions, party) ==
    [ReportRow(i, name, impressions) EXCEPT
        !["Advertiser"] = party, !["Insertion Order"] = <<"io">> \o party]

\* rows of three channels: several rows for one channel, names that read
\* 'unknown' in several cases and paddings, impressions with a thousands
\* separator and with a sign, and a placement that is no YouTube channel
ExtractorRows ==
    {ExtractorRow(1, PlainName, <<"1">>, <<"adv">>),
     ExtractorRow(1, KidsName, <<"1", ",", "0">>, <<"x">>),
     ExtractorRow(1, UnknownName, <<"2">>, <<"y">>),
     ExtractorRow(2, PlainName, <<"2">>, <<"adv">>),
     ExtractorRow(2, <<"U", "N", "K", "N", "O", "W", "N", " ">>, <<"1">>, <<"x">>),
     ExtractorRow(2, KidsName, <<"-", "1">>, <<"y">>),
     ExtractorRow(3, <<"u", "n", "k", "n", "o", "w", "n">>, <<"1">>, <<"adv">>),
     ExtractorRow(3, <<"U", "n", "k", "n", "o", "w", "n">>, <<"3">>, <<"x">>),
     [ExtractorRow(4, PlainName, <<"5">>, <<"adv">>) EXCEPT
         !["Placement"] = <<"example", ".", "com">>]}

RECURSIVE SeqsUpTo(_, _)
SeqsUpTo(S, n) ==
    IF n = 0 THEN {<<>>}
    ELSE LET shorter == SeqsUpTo(S, n - 1)
         IN  shorter \cup {Append(q, x) : q \in shorter, x \in S}

\* the call returns (or raises) in one step
Extract ==
    /\ pc = "extract_youtube_channels"
    /\ DOMAIN extracted = {}
    /\ extracted' = extract_youtube_channels(rows)
    /\ UNCHANGED <<pipeline_vars, call, lookup, rows, store_op>>

NextExtractor == Extract

InitExtractor ==
    /\ pc = "extract_youtube_channels"
    /\ FreshLocals
    /\ keywords = <<>>
    /\ channel_data = <<>>
    /\ docs = EmptyDict
    /\ docs_before = EmptyDict
    /\ second_run = FALSE
    /\ default_urls = {}
    /\ call = CallStart
    /\ lookup = EmptyDict
    /\ rows \in SeqsUpTo(ExtractorRows, MaxRows)
    /\ extracted = EmptyDict
    /\ store_op = EmptyDict

SpecExtractor == InitExtractor /\ [][NextExtractor]_vars

(***************************************************************************)
(* The store followed on its own: lists of categorization dicts saved and  *)
(* URLs looked up, in any order.                                           *)
(***************************************************************************)
\* the longest list saved or looked up in one call
MaxSaved == 2

StoreUrls == {_extract_channel_url(PlacementOf(i)) : i \in 1..3}

\* the dicts the workflow hands to batch_save_categories: the auto-flag
\* record of step 8 (core fields only), and the classifier's flattened
\* result or its default with the URL and name added in step 7
StoreRecords ==
    LET u(i) == _extract_channel_url(PlacementOf(i))
        metadata == Metadata(<<"UC", "x">>)
    IN  {AutoFlagRecord([channel_url |-> u(1), placement_name |-> KidsName], KidsName),
         Categorization(u(1), metadata, Flatten(FullReply(TRUE))),
         Categorization(u(2), metadata, Flatten(FullReply(FALSE))),
         Categorization(u(2), metadata, DefaultResult),
         AutoFlagRecord([channel_url |-> u(3), placement_name |-> KidsName], PlainName)}

StoreOp(op, data, urls, before, raised, result) ==
    [op |-> op, data |-> data, urls |-> urls, before |-> before,
     raised |-> raised, result |-> result]

\* batch_save_categories(categories_data); fail_at as in SaveFrom
Save ==
    /\ pc = "store"
    /\ \E categories_data \in SeqsUpTo(StoreRecords, MaxSaved), fail_at \in {0, 1} :
          LET saved == batch_save_categories(docs, categories_data, fail_at)
          IN  /\ docs' = saved.docs
              /\ store_op' = StoreOp("save", categories_data, <<>>, docs,
                                     saved.raised, EmptyDict)
    /\ UNCHANGED <<pc, keywords, channel_data, elapsed, keyword_matched, needs_analysis,
                   cached_results, final_results, auto_flagged_new, channels_to_analyze,
                   quota_exceeded, batch_num, batch_pos, batch_results,
                   processed_results, processed_count, firestore_auto_flagged,
                   second_run, resolver_log, classifier_log, quota_signal_batch,
                   deadline_batch, write_failed, written_keys, docs_before,
                   default_urls, call, lookup, rows, extracted>>

\* batch_get_cached_categories(channel_urls)
Lookup ==
    /\ pc = "store"
    /\ \E channel_urls \in SeqsUpTo(StoreUrls, MaxSaved) :
          store_op' = StoreOp("get", <<>>, channel_urls, docs, FALSE,
                              batch_get_cached_categories(docs, channel_urls))
    /\ UNCHANGED <<pipeline_vars, call, lookup, rows, extracted>>

NextStore ==
    \/ Save
    \/ Lookup

InitStore ==
    /\ pc = "store"
    /\ FreshLocals
    /\ keywords = <<>>
    /\ channel_data = <<>>
    /\ docs = EmptyDict
    /\ docs_before = EmptyDict
    /\ second_run = FALSE
    /\ default_urls = {}
    /\ call = CallStart
    /\ lookup = EmptyDict
    /\ rows = <<>>
    /\ extracted = EmptyDict
    /\ store_op = StoreOp("none", <<>>, <<>>, EmptyDict, FALSE, EmptyDict)

SpecStore == InitStore /\ [][NextStore]_vars

(***************************************************************************)
(* Saves of lists longer than one batch.  The ceiling of line 144 is 500;  *)
(* the loop is followed here with a small batch_size in its place.         *)
(***************************************************************************)
\* the batch_size the loop is followed with, and the longest list saved
ScaledBatchSize == 2
MaxBatched == 5

\* two dicts for one URL and one for another
BatchedRecords ==
    LET u(i) == _extract_channel_url(PlacementOf(i))
        metadata == Metadata(<<"UC", "x">>)
    IN  {AutoFlagRecord([channel_url |-> u(1), placement_name |-> KidsName], KidsName),
         Categorization(u(1), metadata, Flatten(FullReply(TRUE))),
         Categorization(u(2), metadata, DefaultResult)}

\* one call of batch_save_categories(categories_data) with the small batch_size
SaveMany ==
    /\ pc = "store"
    /\ store_op.op = "none"
    /\ \E categories_data \in SeqsUpTo(BatchedRecords, MaxBatched),
          fail_at \in 0..((MaxBatched + ScaledBatchSize - 1) \div ScaledBatchSize) :
          LET saved == SaveBatches(docs, categories_data, 1, fail_at, ScaledBatchSize, <<>>)
          IN  /\ docs' = saved.docs
              /\ store_op' = StoreOp("save_many", categories_data, <<>>, docs, saved.raised,
                                     [commits |-> saved.commits, fail_at |-> fail_at])
    /\ UNCHANGED <<pc, keywords, channel_data, elapsed, keyword_matched, needs_analysis,
                   cached_results, final_results, auto_flagged_new, channels_to_analyze,
                   quota_exceeded, batch_num, batch_pos, batch_results,
                   processed_results, processed_count, firestore_auto_flagged,
                   second_run, resolver_log, classifier_log, quota_signal_batch,
                   deadline_batch, write_failed, written_keys, docs_before,
                   default_urls, call, lookup, rows, extracted>>

NextStoreBatches == SaveMany

\* the store empty or holding the document of one earlier save
InitStoreBatches ==
    /\ pc = "store"
    /\ FreshLocals
    /\ keywords = <<>>
    /\ channel_data = <<>>
    /\ docs \in {EmptyDict}
                 \cup {batch_save_categories(EmptyDict, <<r>>, 0).docs : r \in BatchedRecords}
    /\ docs_before = EmptyDict
    /\ second_run = FALSE
    /\ default_urls = {}
    /\ call = CallStart
    /\ lookup = EmptyDict
    /\ rows = <<>>
    /\ extracted = EmptyDict
    /\ store_op = StoreOp("none", <<>>, <<>>, EmptyDict, FALSE, EmptyDict)

SpecStoreBatches == InitStoreBatches /\ [][NextStoreBatches]_vars

(***************************************************************************)
(* One call of _sanitize_doc_id.                                           *)
(***************************************************************************)
\* the most tokens a channel_url handed to _sanitize_doc_id is made of
MaxUrlToks == 3

\* the reserved characters, three others, and a run of 500 letters
DocIdAlphabet == RESERVED \cup {"a", "_", "UC", "x*500"}

Sanitize ==
    /\ pc = "_sanitize_doc_id"
    /\ store_op.op = "none"
    /\ store_op' = StoreOp("_sanitize_doc_id", <<>>, store_op.urls, docs, FALSE,
                           _sanitize_doc_id(store_op.urls[1]))
    /\ UNCHANGED <<pipeline_vars, call, lookup, rows, extracted>>

NextDocId == Sanitize

\* any channel_url, whatever the store holds
InitDocId ==
    /\ pc = "_sanitize_doc_id"
    /\ FreshLocals
    /\ keywords = <<>>
    /\ channel_data = <<>>
    /\ docs \in {EmptyDict}
                 \cup {batch_save_categories(EmptyDict, <<r>>, 0).docs : r \in BatchedRecords}
    /\ docs_before = EmptyDict
    /\ second_run = FALSE
    /\ default_urls = {}
    /\ call = CallStart
    /\ lookup = EmptyDict
    /\ rows = <<>>
    /\ extracted = EmptyDict
    /\ \E channel_url \in SeqsUpTo(DocIdAlphabet, MaxUrlToks) :
          store_op = StoreOp("none", <<>>, <<channel_url>>, EmptyDict, FALSE, EmptyDict)

SpecDocId == InitDocId /\ [][NextDocId]_vars

(***************************************************************************)
(* List building followed on its own: an earlier run leaves its records in *)
(* the store, and the lists of a later run are built from a scan of the    *)
(* store (main.py 405-431); or the two functions are applied to a list.    *)
(***************************************************************************)
\* the longest list of results
MaxListed == 3

\* get_all() of the store as the design describes it: every record, in some
\* order (the class has no such method, see ListBuild)
RECURSIVE get_all_channels(_)
get_all_channels(collection) ==
    IF DOMAIN collection = {} THEN <<>>
    ELSE LET k == CHOOSE x \in DOMAIN collection : TRUE
         IN  <<collection[k]>>
                \o get_all_channels([x \in DOMAIN collection \ {k} |-> collection[x]])

\* lines 412-423: the traffic data of the run's results copied onto the
\* first scanned record of the same URL
RECURSIVE MergeTraffic(_, _)
MergeTraffic(all_firestore_channels, results) ==
    IF results = <<>> THEN all_firestore_channels
    ELSE LET result == Head(results)
             hits == {i \in 1..Len(all_firestore_channels) :
                         Get(all_firestore_channels[i], "channel_url", None)
                            = Get(result, "channel_url", None)}
             copied == {"impressions", "advertisers", "insertion_orders"} \cap DOMAIN result
         IN  IF hits = {} THEN MergeTraffic(all_firestore_channels, Tail(results))
             ELSE LET i == CHOOSE h \in hits : \A g \in hits : h <= g
                      fs_channel == all_firestore_channels[i]
                  IN  MergeTraffic(
                         [all_firestore_channels EXCEPT ![i] =
                             [k \in DOMAIN fs_channel \cup copied |->
                                 IF k \in copied THEN result[k] ELSE fs_channel[k]]],
                         Tail(results))

\* a channel of a report, with its traffic
ListedChannel(i, impressions) ==
    [url |-> _extract_channel_url(PlacementOf(i)),
     placement_name |-> KidsName,
     impressions |-> impressions,
     advertisers |-> {<<"adv">>},
     insertion_orders |-> {<<"io">>}]

\* what a run makes of a channel: the result it reports and the dict it
\* saves; channel 1 auto-flagged in step 8, channels 2 and 4 classified in
\* step 7 (the classifier's full result, and its default)
RunEntries ==
    LET metadata == Metadata(<<"UC", "x">>)
        fresh(i, value) ==
            LET categorization ==
                    Categorization(_extract_channel_url(PlacementOf(i)), metadata, value)
            IN  [result |-> FreshResult(categorization, <<ListedChannel(i, 5)>>),
                 record |-> categorization]
    IN  {[result |-> AutoFlagResult(AutoFlagEntry(ListedChannel(1, 7)), KidsName),
          record |-> AutoFlagRecord(AutoFlagEntry(ListedChannel(1, 7)), KidsName)],
         fresh(2, Flatten(FullReply(FALSE))),
         fresh(4, DefaultResult)}

\* the results of the later run: none, or channel 2 met again as a cache hit
LaterResults ==
    {<<>>,
     <<CachedResult(ListedChannel(2, 9),
                    SaveData(Categorization(_extract_channel_url(PlacementOf(2)),
                                            Metadata(<<"UC", "x">>),
                                            Flatten(FullReply(FALSE)))))>>}

\* results handed to the two functions directly: results of a run, a stored
\* document, and results without the flag
ListRecords ==
    {e.result : e \in RunEntries}
    \cup {SaveData(e.record) : e \in {x \in RunEntries : "full_analysis" \notin DOMAIN x.record}}
    \cup {[channel_url |-> _extract_channel_url(PlacementOf(5)), channel_name |-> PlainName]}

\* an earlier run: its results reported, its dicts saved
EarlierRun ==
    /\ pc = "lists"
    /\ store_op.op = "none"
    /\ \E entries \in SeqsUpTo(RunEntries, MaxListed) :
          LET records == [i \in 1..Len(entries) |-> entries[i].record]
          IN  /\ docs' = batch_save_categories(docs, records, 0).docs
              /\ store_op' = StoreOp("earlier_run", entries, <<>>, docs, FALSE, EmptyDict)
    /\ UNCHANGED <<pc, keywords, channel_data, elapsed, keyword_matched, needs_analysis,
                   cached_results, final_results, auto_flagged_new, channels_to_analyze,
                   quota_exceeded, batch_num, batch_pos, batch_results,
                   processed_results, processed_count, firestore_auto_flagged,
                   second_run, resolver_log, classifier_log, quota_signal_batch,
                   deadline_batch, write_failed, written_keys, docs_before,
                   default_urls, call, lookup, rows, extracted>>

\* what the two list functions make of a list of results
BuiltLists(results, entries, later) ==
    StoreOp("lists", results, <<>>, docs, FALSE,
            [inclusion |-> create_inclusion_list(results),
             exclusion |-> create_exclusion_list(results),
             entries |-> entries,
             later |-> later])

\* lines 408-431 of a later run, the scan returning what the store holds
BuildFromStore ==
    /\ pc = "lists"
    /\ store_op.op = "earlier_run"
    /\ \E later \in LaterResults :
          store_op' = BuiltLists(MergeTraffic(get_all_channels(docs), later),
                                 store_op.data, later)
    /\ UNCHANGED <<pipeline_vars, call, lookup, rows, extracted>>

\* create_inclusion_list(results) and create_exclusion_list(results)
BuildLists ==
    /\ pc = "lists"
    /\ store_op.op = "none"
    /\ \E results \in SeqsUpTo(ListRecords, MaxListed) :
          store_op' = BuiltLists(results, <<>>, <<>>)
    /\ UNCHANGED <<pipeline_vars, call, lookup, rows, extracted>>

NextLists ==
    \/ EarlierRun
    \/ BuildFromStore
    \/ BuildLists

InitLists ==
    /\ pc = "lists"
    /\ FreshLocals
    /\ keywords = <<>>
    /\ channel_data = <<>>
    /\ docs = EmptyDict
    /\ docs_before = EmptyDict
    /\ second_run = FALSE
    /\ default_urls = {}
    /\ call = CallStart
    /\ lookup = EmptyDict
    /\ rows = <<>>
    /\ extracted = EmptyDict
    /\ store_op = StoreOp("none", <<>>, <<>>, EmptyDict, FALSE, EmptyDict)

SpecLists == InitLists /\ [][NextLists]_vars

(***************************************************************************)
(* The entry point followed on its own (main.py 88-559): the steps of      *)
(* process_dv360_report in order, each of which ends normally, returns     *)
(* early or throws; a thrown exception unwinds to the nearest handler.     *)
(***************************************************************************)
\* the statements of process_dv360_report, in order
EntrySteps ==
    <<"prologue", "load_config", "init_services", "step1_find_email", "step2_download",
      "step3_extract_csv", "step4_extraction", "step5_6_cache_lookup", "step7_classify",
      "step8_store_write", "step9_list_building", "step10_upload", "step11_email_body",
      "step11_send_email", "summary">>

\* faulty variant: the try opened at step 1 only
TryBodyFromStep1 == {EntrySteps[i] : i \in 4..Len(EntrySteps)}

\* lines 104-550: the statements inside the try of line 104
TryBody == {EntrySteps[i] : i \in 2..Len(EntrySteps)}

\* lines 98-102 (datetime.now(), logger.info) throw nothing
Throwing == Range(EntrySteps) \ {"prologue"}

\* lines 151-153, 164-166, 175-177: the early returns of steps 1 to 3
EarlyReturns ==
    [step1_find_email |-> [error |-> <<"No report email found">>],
     step2_download |-> [error |-> <<"Failed to download attachment">>],
     step3_extract_csv |-> [error |-> <<"Failed to extract CSV">>]]

\* exceptions a step may throw (subclasses of Exception: nothing under src/
\* raises anything else), with the text str() gives
Exceptions ==
    {[type |-> "AttributeError",
      args |-> <<"'FirestoreService' object has no attribute 'get_all_channels'">>],
     [type |-> "FileNotFoundError", args |-> <<"config.yaml">>],
     [type |-> "HttpError", args |-> <<"quotaExceeded">>],
     [type |-> "Exception", args |-> <<>>]}

\* str(error)
ErrorText(error) == error.args

\* lines 552-559: what the handler of the try returns
ErrorStatus(error) == [status |-> <<"error">>, error |-> ErrorText(error)]

\* lines 528-533: the summary of a run that got to its end
SuccessStatus == [status |-> <<"success">>]

\* where the entry point stands: state is running, unwinding, returned or
\* escaped; thrown is the exception in flight or last handled by line 552
EntryState(state, step, thrown, email_failed, result) ==
    StoreOp(state, step, thrown, email_failed, state = "escaped", result)

\* the statement after step number i
AfterStep(i, email_failed) ==
    IF i = Len(EntrySteps)
    THEN EntryState("returned", EntrySteps[i], <<>>, email_failed, SuccessStatus)
    ELSE EntryState("running", EntrySteps[i + 1], <<>>, email_failed, EmptyDict)

\* a statement ends normally
StepEnds ==
    /\ pc = "process_dv360_report"
    /\ store_op.op = "running"
    /\ \E i \in 1..Len(EntrySteps) :
          /\ EntrySteps[i] = store_op.data
          /\ store_op' = AfterStep(i, store_op.before)
    /\ UNCHANGED <<pipeline_vars, call, lookup, rows, extracted>>

\* steps 1 to 3 find nothing and return
StepReturnsEarly ==
    /\ pc = "process_dv360_report"
    /\ store_op.op = "running"
    /\ store_op.data \in DOMAIN EarlyReturns
    /\ store_op' = EntryState("returned", store_op.data, <<>>, store_op.before,
                              EarlyReturns[store_op.data])
    /\ UNCHANGED <<pipeline_vars, call, lookup, rows, extracted>>

\* a statement throws
StepThrows ==
    /\ pc = "process_dv360_report"
    /\ store_op.op = "running"
    /\ store_op.data \in Throwing
    /\ \E error \in Exceptions :
          store_op' = EntryState("unwinding", store_op.data, <<error>>, store_op.before,
                                 EmptyDict)
    /\ UNCHANGED <<pipeline_vars, call, lookup, rows, extracted>>

\* the exception reaches the nearest handler: the one of the send (lines
\* 538-542), which goes on to the summary, or the one of the try (552-559),
\* which returns the error status; outside both it leaves the function
Unwind ==
    /\ pc = "process_dv360_report"
    /\ store_op.op = "unwinding"
    /\ LET step == store_op.data
           error == store_op.urls[1]
       IN  store_op' =
              IF step = "step11_send_email"
              THEN EntryState("running", "summary", <<>>, TRUE, EmptyDict)
              ELSE IF step \in TryBody
                   THEN EntryState("returned", step, <<error>>, store_op.before,
                                   ErrorStatus(error))
                   ELSE EntryState("escaped", step, <<error>>, store_op.before, EmptyDict)
    /\ UNCHANGED <<pipeline_vars, call, lookup, rows, extracted>>

NextEntry ==
    \/ StepEnds
    \/ StepReturnsEarly
    \/ StepThrows
    \/ Unwind

InitEntry ==
    /\ pc = "process_dv360_report"
    /\ FreshLocals
    /\ keywords = <<>>
    /\ channel_data = <<>>
    /\ docs = EmptyDict
    /\ docs_before = EmptyDict
    /\ second_run = FALSE
    /\ default_urls = {}
    /\ call = CallStart
    /\ lookup = EmptyDict
    /\ rows = <<>>
    /\ extracted = EmptyDict
    /\ store_op = EntryState("running", EntrySteps[1], <<>>, FALSE, EmptyDict)

SpecEntry == InitEntry /\ [][NextEntry]_vars

(***************************************************************************)
(* extract_youtube_channels on reports with rows a csv.DictReader yields   *)
(* for short lines (cells that are None) and with placements that are      *)
(* YouTube URLs of other shapes.                                           *)
(***************************************************************************)
\* a row with one cell replaced
RowWith(row, k, cell) == [row EXCEPT ![k] = cell]

\* two well-formed rows; a row without its name cell, one without its
\* impressions cell, one with no cell at all; a video URL, a channel URL
\* whose identifier is punctuation only, the URLs of a sub-page of two
\* channels, and a channel URL with a trailing slash
RawRows ==
    LET good == ExtractorRow(1, PlainName, <<"1">>, <<"adv">>)
    IN  {good,
         ExtractorRow(4, KidsName, <<"2">>, <<"x">>),
         RowWith(ExtractorRow(2, PlainName, <<"3">>, <<"y">>), "Placement Name", None),
         RowWith(ExtractorRow(5, PlainName, <<"3">>, <<"y">>), "Impressions", None),
         [k \in DOMAIN good |-> None],
         RowWith(good, "Placement", UrlPrefix \o <<"watch", "?", "v", "=", "x">>),
         RowWith(good, "Placement", UrlPrefix \o <<"channel", "/", "(", ")">>),
         RowWith(good, "Placement", UrlPrefix \o <<"channel", "/", "UC", "x", "/", "videos">>),
         RowWith(good, "Placement", UrlPrefix \o <<"channel", "/", "UC", "y", "/", "videos">>),
         RowWith(good, "Placement", UrlPrefix \o <<"channel", "/", "UC", "x", "/">>)}

InitRawReport ==
    /\ pc = "extract_youtube_channels"
    /\ FreshLocals
    /\ keywords = <<>>
    /\ channel_data = <<>>
    /\ docs = EmptyDict
    /\ docs_before = EmptyDict
    /\ second_run = FALSE
    /\ default_urls = {}
    /\ call = CallStart
    /\ lookup = EmptyDict
    /\ rows \in SeqsUpTo(RawRows, MaxRows)
    /\ extracted = EmptyDict
    /\ store_op = EmptyDict

SpecRawReport == InitRawReport /\ [][NextExtractor]_vars

NextClassifier ==
    \/ Post
    \/ Send
    \/ GiveUp

InitClassifier ==
    /\ pc = "categorize_channel"
    /\ FreshLocals
    /\ keywords = <<>>
    /\ channel_data = <<>>
    /\ docs = EmptyDict
    /\ docs_before = EmptyDict
    /\ second_run = FALSE
    /\ default_urls = {}
    /\ UnitsIdle

\* the loop runs on until it returns or raises: no pass of it blocks for ever
\* (session.post has timeout=60, line 149)
SpecClassifier == InitClassifier /\ [][NextClassifier]_vars /\ WF_vars(NextClassifier)

Next ==
    \/ Route
    \/ BatchCheck
    \/ ProcessChannel
    \/ BatchDone
    \/ Merge
    \/ SweepEntry
    \/ SweepItem
    \/ SweepDone
    \/ SweepSave
    \/ ListBuild

Spec == Init /\ [][Next]_vars

NextTwice == Next \/ Rerun

\* two invocations on one report of at most MaxChannelsTwice channels, the
\* first of them against an empty store
InitTwice ==
    /\ Init
    /\ docs = EmptyDict
    /\ Len(channel_data) <= MaxChannelsTwice

SpecTwice == InitTwice /\ [][NextTwice]_vars

(***************************************************************************)
(* Properties of steps 5-8, checked under Spec and SpecTwice.              *)
(***************************************************************************)
\* the three buckets the Router leaves
CachedBucket ==
    {final_results[i].channel_url : i \in {j \in 1..Len(final_results) : final_results[j].cached}}
AutoFlaggedBucket == {auto_flagged_new[i].channel_url : i \in 1..Len(auto_flagged_new)}
ToAnalyzeBucket == Range(channels_to_analyze)

Routed == pc \in {"step7", "batch", "merge", "step8", "sweep", "sweep_save", "step9", "error"}

\* C1: once the Router has run, the cached results, auto_flagged_new and
\* channels_to_analyze are pairwise disjoint, none of them cites a URL twice,
\* and together they hold exactly the URLs the Extractor returned.
C1_RouterPartition ==
    Routed =>
        /\ CachedBucket \cap AutoFlaggedBucket = {}
        /\ CachedBucket \cap ToAnalyzeBucket = {}
        /\ AutoFlaggedBucket \cap ToAnalyzeBucket = {}
        /\ CachedBucket \cup AutoFlaggedBucket \cup ToAnalyzeBucket = Range(Urls(channel_data))
        /\ Cardinality(CachedBucket) + Len(auto_flagged_new) + Len(channels_to_analyze)
              = Len(channel_data)

\* C1's case: a routed report with a channel in each of the three buckets
C1_Witness ==
    /\ pc = "step7"
    /\ CachedBucket # {}
    /\ AutoFlaggedBucket # {}
    /\ ToAnalyzeBucket # {}

NamesKeyword(ch) ==
    \E k \in 1..Len(keywords) : Contains(Lower(keywords[k]), Lower(ch.placement_name))

\* C3: categorize_channel is never invoked for a channel whose placement name
\* contains a keyword, and the result step 8 gives such a channel has
\* is_children_content true, confidence 'high' and a reasoning that holds the
\* placement name.
C3_KeywordShortCircuit ==
    \A i \in 1..Len(channel_data) :
        LET ch == channel_data[i]
        IN  NamesKeyword(ch) =>
                /\ ch.url \notin Range(classifier_log)
                /\ \A j \in 1..Len(final_results) :
                      (final_results[j].channel_url = ch.url /\ ~final_results[j].cached) =>
                          /\ final_results[j].is_children_content = TRUE
                          /\ final_results[j].confidence = <<"high">>
                          /\ Contains(ch.placement_name, final_results[j].reasoning)

\* C3's case: step 8 has given a keyword-matching channel its result while
\* the classifier was at work on another channel of the run
C3_Witness ==
    /\ pc = "step9"
    /\ classifier_log # <<>>
    /\ \E i \in 1..Len(channel_data), j \in 1..Len(final_results) :
          /\ NamesKeyword(channel_data[i])
          /\ final_results[j].channel_url = channel_data[i].url
          /\ ~final_results[j].cached

\* the classification fields of a stored record
Verdict(doc) ==
    <<doc["is_children_content"], doc["confidence"], doc["reasoning"]>>

StoppedAt ==
    IF deadline_batch > 0 THEN deadline_batch
    ELSE (Len(channels_to_analyze) + BATCH_SIZE - 1) \div BATCH_SIZE + 1

\* C5: the deadline is found exceeded only at the check before a batch, and
\* once step 7 is over the channels it handed to the Resolver are exactly the
\* whole batches before the one whose check stopped it, in order: the first
\* (StoppedAt - 1) * BATCH_SIZE channels of channels_to_analyze, or all of
\* them when there are fewer.
C5_DeadlineTruncation ==
    /\ pc = "batch" =>
          /\ deadline_batch = 0
          /\ resolver_log =
                SubSeq(channels_to_analyze, 1, (batch_num - 1) * BATCH_SIZE + batch_pos)
    /\ pc \in {"merge", "step8", "sweep", "sweep_save", "step9", "error"} =>
          LET n == (StoppedAt - 1) * BATCH_SIZE
          IN  resolver_log =
                 SubSeq(channels_to_analyze, 1,
                        IF n < Len(channels_to_analyze) THEN n ELSE Len(channels_to_analyze))

\* C5's case: the check before the second batch found the deadline exceeded
\* and channels were left over
C5_Witness ==
    /\ pc = "merge"
    /\ deadline_batch = 2
    /\ Len(resolver_log) = BATCH_SIZE
    /\ Len(channels_to_analyze) > BATCH_SIZE

\* C6: once the Resolver or the Classifier has signalled quota exhaustion for
\* a channel of step 7, no later batch is started, and when step 7 is over
\* quota_exceeded is set.
C6_QuotaAbort ==
    quota_signal_batch # 0 =>
        /\ batch_num = quota_signal_batch
        /\ pc \in {"step8", "sweep", "sweep_save", "step9", "error"} => quota_exceeded

\* the categorizations step 7 has made so far in this run
Categorized ==
    Range(processed_results) \cup (IF pc = "batch" THEN Range(batch_results) ELSE {})

\* C7: at every point of step 7, unless a store write has failed, every
\* channel categorized so far in this run has a record under its key.
C7_NaturalCheckpoint ==
    (pc \in {"step7", "batch", "merge"} /\ ~write_failed) =>
        \A r \in Categorized : _sanitize_doc_id(r["channel_url"]) \in DOMAIN docs

\* C7's case: in the middle of a batch, a channel categorized and written,
\* the next one not yet handed to the Resolver
C7_Witness ==
    /\ pc = "batch"
    /\ batch_results # <<>>
    /\ batch_pos < Len(Batch(channels_to_analyze, batch_num))
    /\ ~write_failed
    /\ docs_before = EmptyDict

\* C8: a channel for which the Classifier exhausted its retries gets no run
\* result and no store record, and when a batch is over every channel of it
\* has been handed to the Resolver.
C8_FailureIsolation ==
    /\ \A url \in default_urls :
          /\ \A r \in Categorized : r["channel_url"] # url
          /\ _sanitize_doc_id(url) \notin written_keys
    /\ (pc = "batch" /\ batch_pos = Len(Batch(channels_to_analyze, batch_num))) =>
          Len(resolver_log) = (batch_num - 1) * BATCH_SIZE + batch_pos

\* C9: a channel that got the Classifier's default verdict in the first run
\* is among the second run's channels_to_analyze.
C9_DefaultRetried ==
    (second_run /\ Routed) =>
        \A url \in default_urls : url \in Range(channels_to_analyze)

(***************************************************************************)
(* Properties of categorize_channel, checked under SpecClassifier.         *)
(***************************************************************************)
\* C10: a call of categorize_channel passes through session.post at most
\* MAX_RETRIES times, which the adapter's retries turn into at most
\* MAX_RETRIES * (RETRY_TOTAL + 1) HTTP requests; the call ends; and when no
\* post brought a complete reply or a quota error, it returns
\* is_children_content false, confidence 'low' and the reasoning that notes
\* the failure.
C10_BoundedRetry ==
    /\ [](/\ call.requests <= MAX_RETRIES
          /\ call.sends <= MAX_RETRIES * (RETRY_TOTAL + 1)
          /\ (call.status # "running" /\ ~call.saw_complete /\ ~call.saw_quota) =>
                /\ call.status = "returned"
                /\ call.value["is_children_content"] = FALSE
                /\ call.value["confidence"] = <<"low">>
                /\ call.value["reasoning"] = <<"Failed to analyze due to API errors">>)
    /\ <>(call.status # "running")

\* C10's case: every post ran into retried failures to the end, and the call
\* returned the default
C10_Witness ==
    /\ call.status = "returned"
    /\ call.requests = MAX_RETRIES
    /\ call.sends = MAX_RETRIES * (RETRY_TOTAL + 1)
    /\ call.value["is_children_content"] = FALSE
    /\ ~call.saw_complete

\* C10 as stated: at most max_retries requests reach the service
C10_AtMostMaxRetriesRequests == call.sends <= MAX_RETRIES

\* C11: when a post ends in a request error whose text holds a quota, billing
\* or rate-limit marker, the call raises at once with an error that names the
\* quota, returns no verdict, and sends nothing more.
C11_QuotaNotRetried ==
    /\ [](call.saw_quota =>
            /\ call.status = "raised"
            /\ call.value = EmptyDict
            /\ Contains(<<"quota">>, Lower(call.error))
            /\ ~call.posting)
    /\ [][call.saw_quota => call' = call]_vars

\* C11's case: a quota error at the second post, after a first post that failed
\* for another reason
C11_Witness ==
    /\ call.saw_quota
    /\ call.status = "raised"
    /\ call.requests = 2
    /\ call.retry_count = 1

(***************************************************************************)
(* Properties of get_channel_metadata, checked under SpecResolver.         *)
(***************************************************************************)
\* C12: once the directory service has answered a search or a detail fetch
\* of the call with a quota error, the call raises, and never returns the
\* empty result, whatever the shape of the URL.
C12_QuotaDistinguished ==
    (lookup.saw_quota /\ lookup.status # "running") => lookup.status = "raised"

\* C13: an answer of not found (404 or no items) ends the call with the empty
\* result, nothing raised and no further attempt; an attempt that met a
\* transient error is counted and followed by another one until max_retries
\* attempts have failed, and then the call ends with the empty result.
C13_RetryCeilingAndNotFound ==
    /\ lookup.saw_not_found => (lookup.status = "none" /\ lookup.error = <<>>)
    /\ lookup.attempts <= MAX_RETRIES
    /\ (lookup.last_transient /\ lookup.status # "running") =>
          (lookup.status = "none" /\ lookup.retry_count = MAX_RETRIES)

(***************************************************************************)
(* Properties of steps 8 and 11, checked under Spec.                       *)
(***************************************************************************)
\* C14: when steps 7 and 8 are over and step 7 stopped with at least one
\* channel of channels_to_analyze never handed to the Resolver, the subject of
\* the notification ends with ' [PARTIAL]' and its warning block is not empty.
C14_PartialMarker ==
    (pc = "step9" /\ Len(resolver_log) < Len(channels_to_analyze)) =>
        /\ Contains(<<" [PARTIAL]">>, email_subject(quota_exceeded))
        /\ partial_warning(quota_exceeded, UnprocessedCount) # <<>>

\* C15: at every point of the auto-flag sweep of step 8, all the channels the
\* sweep has produced a verdict for, but at most one, have their record in
\* the store.
C15_SweepLosesNothing ==
    pc \in {"sweep", "sweep_save"} =>
        Cardinality({i \in 1..Len(firestore_auto_flagged) :
                        _sanitize_doc_id(firestore_auto_flagged[i].channel_url)
                            \notin DOMAIN docs}) <= 1

(***************************************************************************)
(* Properties of extract_youtube_channels, checked under SpecExtractor.    *)
(***************************************************************************)
\* the call has returned a mapping
Extracted == DOMAIN extracted # {} /\ ~extracted.raised

\* C16: the entries of the mapping returned are in non-increasing order of
\* their cumulative impressions.
C16_SortInvariant ==
    Extracted =>
        \A i \in 1..(Len(extracted.channels) - 1) :
            extracted.channels[i].impressions >= extracted.channels[i + 1].impressions

\* C16's case: channels with different sums, returned in another order
\* than the one their first rows came in
C16_Witness ==
    /\ Extracted
    /\ Len(extracted.channels) >= 2
    /\ extracted.channels[1].impressions > extracted.channels[2].impressions
    /\ extracted.channels # FoldRows(rows, <<>>).channels

\* the name of the row reads 'unknown' once trimmed, whatever the case
UnknownNamed(row) ==
    Lower(Strip(row["Placement Name"])) = <<"u", "n", "k", "n", "o", "w", "n">>

\* the rows without the one at position k
Without(s, k) == SubSeq(s, 1, k - 1) \o SubSeq(s, k + 1, Len(s))

\* C17: a row named 'unknown' changes nothing: the mapping returned is the one
\* the rows without it give, and a URL that only such rows cite is no key of
\* the mapping.
C17_UnknownExclusion ==
    Extracted =>
        /\ \A k \in 1..Len(rows) :
              UnknownNamed(rows[k]) =>
                  extracted = extract_youtube_channels(Without(rows, k))
        /\ \A k \in 1..Len(rows) :
              (\A j \in 1..Len(rows) :
                    RowUrl(rows[j]) = RowUrl(rows[k]) => UnknownNamed(rows[j]))
                 => \A i \in 1..Len(extracted.channels) :
                       extracted.channels[i].url # RowUrl(rows[k])

\* C17's case: a channel cited by a named row and by an 'UNKNOWN ' row after
\* it, and another channel cited by an 'unknown' row only
C17_Witness ==
    /\ Extracted
    /\ Len(rows) = 3
    /\ \E j, k \in 1..Len(rows) :
          /\ j < k
          /\ RowUrl(rows[j]) = RowUrl(rows[k])
          /\ ~UnknownNamed(rows[j])
          /\ UnknownNamed(rows[k])
          /\ rows[k]["Placement Name"] # <<"U", "n", "k", "n", "o", "w", "n">>
    /\ \E k \in 1..Len(rows) :
          /\ UnknownNamed(rows[k])
          /\ \A j \in 1..Len(rows) : j # k => RowUrl(rows[j]) # RowUrl(rows[k])
    /\ Len(extracted.channels) = 1

\* what the mapping holds apart from names and order
Aggregates(channels) ==
    {[url |-> channels[i].url,
      impressions |-> channels[i].impressions,
      advertisers |-> channels[i].advertisers,
      insertion_orders |-> channels[i].insertion_orders] : i \in 1..Len(channels)}

\* C18: the rows in any other order give the same URLs and, for each URL, the
\* same cumulative impressions, advertisers and insertion orders.
C18_RowOrderIndependence ==
    Extracted =>
        \A p \in Permutations(1..Len(rows)) :
            LET other == extract_youtube_channels([i \in 1..Len(rows) |-> rows[p[i]]])
            IN  /\ ~other.raised
                /\ Aggregates(other.channels) = Aggregates(extracted.channels)

\* C18's case: two rows of one channel with different impressions and
\* advertisers and a row of another channel, where some other order of the
\* rows returns another mapping
C18_Witness ==
    /\ Extracted
    /\ Len(rows) = 3
    /\ Len(extracted.channels) = 2
    /\ \E i \in 1..2 : Cardinality(extracted.channels[i].advertisers) = 2
    /\ \E p \in Permutations(1..Len(rows)) :
          extract_youtube_channels([i \in 1..Len(rows) |-> rows[p[i]]]) # extracted

(***************************************************************************)
(* Properties of the store, checked under SpecStore.                       *)
(***************************************************************************)
\* C19: a lookup of the URL of the one record just saved returns a record
\* that holds every field of the record handed in, with the same value.
C19_StoreRoundTrip ==
    [][(/\ store_op.op = "save"
        /\ ~store_op.raised
        /\ Len(store_op.data) = 1
        /\ store_op'.op = "get"
        /\ store_op'.urls = <<store_op.data[1]["channel_url"]>>)
       => LET record == store_op.data[1]
              found == store_op'.result
              url == record["channel_url"]
          IN  /\ url \in DOMAIN found
              /\ \A k \in DOMAIN record :
                    k \in DOMAIN found[url] /\ found[url][k] = record[k]]_vars

\* the keys the last save was to write
SavedKeys ==
    {_sanitize_doc_id(store_op.data[i]["channel_url"]) : i \in 1..Len(store_op.data)}

\* C20: after a save, saving the same list again changes nothing; the record
\* at a key written is the one the last dict for that key gives in an empty
\* store, whatever was there before; and every other key holds what it held.
C20_IdempotentUpsert ==
    store_op.op = "save" =>
        /\ \A k \in DOMAIN store_op.before \ SavedKeys :
              k \in DOMAIN docs /\ docs[k] = store_op.before[k]
        /\ DOMAIN docs \subseteq DOMAIN store_op.before \cup SavedKeys
        /\ ~store_op.raised =>
              /\ batch_save_categories(docs, store_op.data, 0).docs = docs
              /\ \A i \in 1..Len(store_op.data) :
                    LET data == store_op.data[i]
                        doc_id == _sanitize_doc_id(data["channel_url"])
                    IN  (\A j \in (i + 1)..Len(store_op.data) :
                            _sanitize_doc_id(store_op.data[j]["channel_url"]) # doc_id)
                        => /\ doc_id \in DOMAIN docs
                           /\ docs[doc_id] =
                                 batch_save_categories(EmptyDict, <<data>>, 0).docs[doc_id]

\* C20's case: a core-only record saved over a record that held the full
\* analysis, while another key held a record
C20_Witness ==
    /\ store_op.op = "save"
    /\ ~store_op.raised
    /\ \E k \in SavedKeys :
          /\ k \in DOMAIN store_op.before
          /\ "full_analysis" \in DOMAIN store_op.before[k]
          /\ "full_analysis" \notin DOMAIN docs[k]
    /\ DOMAIN store_op.before \ SavedKeys # {}

(***************************************************************************)
(* Properties of the batching loop, checked under SpecStoreBatches.        *)
(***************************************************************************)
RECURSIVE Concat(_)
Concat(lists) == IF lists = <<>> THEN <<>> ELSE Head(lists) \o Concat(Tail(lists))

\* the collection before, with the dicts of a list written over it in order
Overwritten(before, written) ==
    LET key(i) == _sanitize_doc_id(written[i]["channel_url"])
        keys == {key(i) : i \in 1..Len(written)}
        last(k) == CHOOSE i \in 1..Len(written) :
                      key(i) = k /\ \A j \in (i + 1)..Len(written) : key(j) # k
    IN  [k \in DOMAIN before \cup keys |->
            IF k \in keys THEN SaveData(written[last(k)]) ELSE before[k]]

\* C21: the commits of a save are consecutive slices of the list in input
\* order, each of at most batch_size dicts and all but the last of exactly
\* batch_size; when nothing is refused every dict is in exactly one commit;
\* when commit k is refused the save raises, the k - 1 commits before it are
\* in the store and nothing of the dicts after them is.
C21_SetManyBatching ==
    store_op.op = "save_many" =>
        LET commits == store_op.result.commits
            fail_at == store_op.result.fail_at
            written == Concat(commits)
            total == (Len(store_op.data) + ScaledBatchSize - 1) \div ScaledBatchSize
        IN  /\ \A c \in 1..Len(commits) :
                  /\ Len(commits[c]) >= 1
                  /\ Len(commits[c]) <= ScaledBatchSize
                  /\ c < Len(commits) => Len(commits[c]) = ScaledBatchSize
            /\ written = SubSeq(store_op.data, 1, Len(written))
            /\ store_op.raised <=> fail_at \in 1..total
            /\ ~store_op.raised => written = store_op.data
            /\ store_op.raised => Len(commits) = fail_at - 1
            /\ docs = Overwritten(store_op.before, written)

\* C21's case: a list of three batches whose third commit was refused, the
\* dict of that batch being for a key the store does not hold
C21_Witness ==
    /\ store_op.op = "save_many"
    /\ Len(store_op.data) = 2 * ScaledBatchSize + 1
    /\ store_op.raised
    /\ Len(store_op.result.commits) = 2
    /\ _sanitize_doc_id(store_op.data[Len(store_op.data)]["channel_url"]) \notin DOMAIN docs

(***************************************************************************)
(* Properties of step 9, checked under Spec.                               *)
(***************************************************************************)
\* C22: the store has an operation that returns all its records, and the
\* list-building step of a run gets the records through it: step 9 does not
\* end the run with the error status.
C22_FullScan ==
    [][pc = "step9" => ("get_all_channels" \in FirestoreOperations /\ pc' # "error")]_vars

(***************************************************************************)
(* Properties of _sanitize_doc_id, checked under SpecDocId.                *)
(***************************************************************************)
\* C23: the key made of a URL holds none of the characters / : ? & # . and is
\* at most 1000 characters long: a URL whose substituted form is longer is
\* given a digest of fixed length, any other URL its substituted form.
C23_KeyDerivation ==
    store_op.op = "_sanitize_doc_id" =>
        LET channel_url == store_op.urls[1]
            doc_id == store_op.result
        IN  /\ \A i \in 1..Len(doc_id) : doc_id[i] \notin RESERVED
            /\ DocIdLen(doc_id) <= MAX_DOC_ID_LEN
            /\ StrLen(channel_url) > MAX_DOC_ID_LEN => DocIdLen(doc_id) = DIGEST_HEX_LEN
            /\ StrLen(channel_url) <= MAX_DOC_ID_LEN => Len(doc_id) = Len(channel_url)

\* C23's case: a URL of 1001 characters, reserved ones among them
C23_Witness ==
    /\ store_op.op = "_sanitize_doc_id"
    /\ StrLen(store_op.urls[1]) = MAX_DOC_ID_LEN + 1
    /\ \E i \in 1..Len(store_op.urls[1]) : store_op.urls[1][i] \in RESERVED
    /\ DocIdLen(store_op.result) = DIGEST_HEX_LEN

(***************************************************************************)
(* Properties of list building, checked under SpecLists.                   *)
(***************************************************************************)
\* the flag of a result is there and true
FlagSet(r) == "is_children_content" \in DOMAIN r /\ r["is_children_content"] = TRUE

\* how many of the first n results have the flag set
FlaggedUpTo(results, n) == Cardinality({i \in 1..n : FlagSet(results[i])})

\* C24: the two counts add up to the number of results, each list has as
\* many rows as its count, and the i-th result is the next row of the
\* exclusion list when its flag is set and the next row of the inclusion list
\* when it is not set or absent.
C24_ListDisjointness ==
    store_op.op = "lists" =>
        LET results == store_op.data
            inclusion == store_op.result.inclusion
            exclusion == store_op.result.exclusion
        IN  /\ inclusion.count + exclusion.count = Len(results)
            /\ Len(inclusion.rows) = inclusion.count
            /\ Len(exclusion.rows) = exclusion.count
            /\ \A i \in 1..Len(results) :
                  LET f == FlaggedUpTo(results, i)
                      url == Get(results[i], "channel_url", <<>>)
                  IN  IF FlagSet(results[i])
                      THEN /\ f <= Len(exclusion.rows)
                           /\ exclusion.rows[f]["channel_url"] = url
                      ELSE /\ i - f <= Len(inclusion.rows)
                           /\ inclusion.rows[i - f]["channel_url"] = url

\* C24's case: three results, one flagged, one not, one without the flag
C24_Witness ==
    /\ store_op.op = "lists"
    /\ Len(store_op.data) = 3
    /\ \E i, j, k \in 1..3 :
          /\ FlagSet(store_op.data[i])
          /\ "is_children_content" \in DOMAIN store_op.data[j]
          /\ ~FlagSet(store_op.data[j])
          /\ "is_children_content" \notin DOMAIN store_op.data[k]
    /\ store_op.result.inclusion.count = 2
    /\ store_op.result.exclusion.count = 1

\* the rows of both lists
ListedRows ==
    Range(store_op.result.inclusion.rows) \cup Range(store_op.result.exclusion.rows)

\* the entries of the earlier run for channels the later run did not meet,
\* each the last one of its channel
CarriedOver ==
    LET entries == store_op.result.entries
        later == store_op.result.later
    IN  {i \in 1..Len(entries) :
            /\ \A j \in (i + 1)..Len(entries) :
                  entries[j].result.channel_url # entries[i].result.channel_url
            /\ \A j \in 1..Len(later) :
                  later[j].channel_url # entries[i].result.channel_url}

\* C25: a channel the earlier run saved and the later run did not meet has a
\* row in the lists built from the store, with the impressions the earlier
\* run reported for it and, in the exclusion list, its advertisers and
\* insertion orders.
C25_TrafficCarriedOver ==
    store_op.op = "lists" =>
        \A i \in CarriedOver :
            LET result == store_op.result.entries[i].result
            IN  \E row \in ListedRows :
                   /\ row["channel_url"] = result.channel_url
                   /\ row["impressions"] = IntText(result.impressions)
                   /\ "advertisers" \in DOMAIN row =>
                         /\ row["advertisers"] = JoinSet(result.advertisers)
                         /\ row["insertion_orders"] = JoinSet(result.insertion_orders)

\* the columns of a row that hold enrichment, with the field of the saved
\* dict each of the top-level ones shows
EnrichmentColumns ==
    {"content_vertical", "content_niche", "content_format", "brand_safety_score",
     "premium_suitable", "geographic_focus", "primary_language", "purchase_intent",
     "summary"}

\* C26: in the row built from the store for a channel whose dict was saved
\* without an enrichment field, the column of that field holds 'No data'.
C26_MissingEnrichmentIsNoData ==
    store_op.op = "lists" =>
        \A i \in 1..Len(store_op.result.entries) :
            LET record == store_op.result.entries[i].record
            IN  (\A j \in (i + 1)..Len(store_op.result.entries) :
                    store_op.result.entries[j].record["channel_url"] # record["channel_url"])
                => \E row \in ListedRows :
                      /\ row["channel_url"] = record["channel_url"]
                      /\ \A k \in EnrichmentColumns \ DOMAIN record : row[k] = NoData

Unprocessable(row) == RowUrl(row) # None /\ RowName(row) = None

\* C28: the call returns a mapping whatever the rows, and it is the mapping
\* the call returns for the rows without the unprocessable ones.
C28_MalformedRowSkipped ==
    DOMAIN extracted # {} =>
        /\ ~extracted.raised
        /\ \A k \in 1..Len(rows) :
              Unprocessable(rows[k]) =>
                  extracted = extract_youtube_channels(Without(rows, k))

\* the four canonical shapes
CanonicalShapes == {<<"channel", "/">>, <<"@">>, <<"c", "/">>, <<"user", "/">>}

\* url is a canonical shape followed by an identifier that is not empty
Canonical(url) ==
    \E shape \in CanonicalShapes :
        LET n == Len(UrlPrefix \o shape)
        IN  Len(url) > n /\ SubSeq(url, 1, n) = UrlPrefix \o shape

\* the placement of the row holds a youtube.com URL of none of the shapes
OtherShape(row) ==
    LET placement == Strip(FirstTruthy(Get(row, PLACEMENT_ALL, None),
                                       Get(row, "Placement", None)))
    IN  /\ Contains(YT, Lower(placement))
        /\ \A shape \in CanonicalShapes : ~Contains(YT \o <<"/">> \o shape, placement)

\* C29: every key of the mapping returned is canonical, and a row whose
\* placement is a youtube.com URL of another shape adds nothing to it.
C29_CanonicalShapes ==
    Extracted =>
        /\ \A i \in 1..Len(extracted.channels) : Canonical(extracted.channels[i].url)
        /\ \A k \in 1..Len(rows) :
              OtherShape(rows[k]) =>
                  extracted = extract_youtube_channels(Without(rows, k))

(***************************************************************************)
(* Properties of the sweep of step 8 under a quota signal, checked under   *)
(* Spec.                                                                   *)
(***************************************************************************)
\* C30: in a run that handed no channel to step 7 (so that a quota signal can
\* only come from the sweep), once the sweep has met a quota signal it takes
\* no further entry of auto_flagged_new to get_channel_metadata.
C30_QuotaEndsSweep ==
    [][(pc = "sweep" /\ channels_to_analyze = <<>> /\ quota_exceeded)
          => processed_count' = processed_count]_vars

(***************************************************************************)
(* Properties of the order of channels_to_analyze, checked under Spec.     *)
(***************************************************************************)
\* the impressions the report gives the channel of a URL
ImpressionsOf(url) == channel_data[IndexOf(channel_data, url)].impressions

\* C31: channels_to_analyze is in non-increasing order of impressions, and
\* once step 7 is over no channel it did not hand to the Resolver has more
\* impressions than a channel it did hand to it.
C31_ToClassifyOrder ==
    Routed =>
        /\ \A i, j \in 1..Len(channels_to_analyze) :
              i < j => ImpressionsOf(channels_to_analyze[i])
                          >= ImpressionsOf(channels_to_analyze[j])
        /\ pc \in {"merge", "step8", "sweep", "sweep_save", "step9", "error"} =>
              \A i \in 1..Len(resolver_log) :
                 \A j \in (Len(resolver_log) + 1)..Len(channels_to_analyze) :
                    ImpressionsOf(channels_to_analyze[j]) <= ImpressionsOf(resolver_log[i])

\* C31's case: the deadline stopped step 7 with channels left, and the report
\* named a channel with more impressions after the ones that were left
C31_Witness ==
    /\ pc = "step9"
    /\ deadline_batch > 0
    /\ resolver_log # <<>>
    /\ Len(resolver_log) < Len(channels_to_analyze)
    /\ ImpressionsOf(resolver_log[1])
          > ImpressionsOf(channels_to_analyze[Len(channels_to_analyze)])
    /\ resolver_log[1] = _extract_channel_url(PlacementOf(MaxChannels))

(***************************************************************************)
(* Properties of the dispatch of get_channel_metadata on the shape of the  *)
(* URL, checked under SpecResolver.                                        *)
(***************************************************************************)
\* the URL is of the shape /channel/{id}
IsIdUrl(url) ==
    LET head == UrlPrefix \o <<"channel", "/">>
    IN  Len(url) >= Len(head) /\ SubSeq(url, 1, Len(head)) = head

\* C32: a call for a /channel/{id} URL issues no search and one detail fetch
\* per attempt; a call for a URL of another shape issues one search per
\* attempt and never more detail fetches than searches; and the attempt whose
\* search finds no channel issues no detail fetch and ends the call with the
\* empty result.
C32_ResolverDispatch ==
    /\ [](/\ IsIdUrl(lookup.url) =>
               (lookup.search_calls = 0 /\ lookup.detail_calls = lookup.attempts)
          /\ ~IsIdUrl(lookup.url) =>
               (lookup.search_calls = lookup.attempts
                  /\ lookup.detail_calls <= lookup.search_calls)
          /\ lookup.search_found_none => (lookup.status = "none" /\ lookup.error = <<>>))
    /\ [][(lookup'.search_found_none /\ ~lookup.search_found_none) =>
             lookup'.detail_calls = lookup.detail_calls]_vars

\* C32's case: a call for a URL of another shape whose first attempt searched
\* and fetched, and whose second attempt searched and found no channel
C32_Witness ==
    /\ ~IsIdUrl(lookup.url)
    /\ lookup.search_found_none
    /\ lookup.attempts = 2
    /\ lookup.search_calls = 2
    /\ lookup.detail_calls = 1
    /\ lookup.status = "none"

(***************************************************************************)
(* Properties of the deadline of the sweep of step 8, checked under Spec.  *)
(***************************************************************************)
\* the entries of auto_flagged_new the sweep has gone through
Swept == SubSeq(auto_flagged_new, 1, processed_count)

\* C33: the sweep is entered only with entries to go through and a clock
\* reading below the budget less the reserve; in the sweep the reading changes
\* only at a positive multiple of SWEEP_CHECK_EVERY entries and the sweep
\* never goes on with a reading beyond the reserve; a sweep that ended with
\* entries left ended on such a reading at a positive multiple of
\* SWEEP_CHECK_EVERY entries; and once its write is done every entry it went
\* through has its record in the store and its result among the run results.
C33_SweepDeadline ==
    /\ [](/\ pc = "sweep" => elapsed <= MAX_RUNTIME - RESERVE
          /\ (pc \in {"sweep_save", "step9"} /\ processed_count < Len(auto_flagged_new)
                /\ processed_count > 0) =>
                (/\ elapsed > MAX_RUNTIME - RESERVE
                 /\ processed_count % SWEEP_CHECK_EVERY = 0)
          /\ pc = "sweep_save" => processed_count > 0
          /\ pc = "step9" =>
                \A i \in 1..Len(Swept) :
                   /\ _sanitize_doc_id(Swept[i].channel_url) \in DOMAIN docs
                   /\ \E j \in 1..Len(final_results) :
                         /\ final_results[j].channel_url = Swept[i].channel_url
                         /\ ~final_results[j].cached
                         /\ final_results[j].is_children_content)
    /\ [][/\ (pc = "step8" /\ pc' = "sweep") =>
                (auto_flagged_new # <<>> /\ elapsed' < MAX_RUNTIME - RESERVE)
          /\ (pc = "sweep" /\ elapsed' # elapsed) =>
                (processed_count > 0 /\ processed_count % SWEEP_CHECK_EVERY = 0)]_vars

\* C33's case: the check after SWEEP_CHECK_EVERY entries found the reserve
\* reached, one entry was left, and the entries gone through were written
C33_Witness ==
    /\ pc = "step9"
    /\ processed_count = SWEEP_CHECK_EVERY
    /\ Len(auto_flagged_new) > processed_count
    /\ elapsed > MAX_RUNTIME - RESERVE
    /\ \A i \in 1..Len(Swept) : _sanitize_doc_id(Swept[i].channel_url) \in DOMAIN docs

(***************************************************************************)
(* Properties of the keys of channels, checked under SpecStore.            *)
(***************************************************************************)
\* C34: the record a lookup returns for a URL is a record that was saved for
\* that URL, and a save leaves what a lookup finds for the URLs it was not
\* given as it was.
C34_KeysInjective ==
    /\ store_op.op = "get" =>
          \A u \in DOMAIN store_op.result : store_op.result[u]["channel_url"] = u
    /\ (store_op.op = "save" /\ ~store_op.raised) =>
          \A u \in StoreUrls :
             (\A i \in 1..Len(store_op.data) : store_op.data[i]["channel_url"] # u) =>
                batch_get_cached_categories(docs, <<u>>)
                   = batch_get_cached_categories(store_op.before, <<u>>)

(***************************************************************************)
(* Properties of the routing of the channels of a report, checked under    *)
(* SpecExtractor.                                                          *)
(***************************************************************************)
\* lines 197-205 and 238-251 of main.py: the bucket of a channel that is not
\* in the store
BucketOf(ch, kws) ==
    IF KeywordHit(ch.placement_name, kws) THEN "auto_flagged_new" ELSE "channels_to_analyze"

\* the bucket of every channel of a mapping, by URL
Buckets(channels, kws) ==
    {<<channels[i].url, BucketOf(channels[i], kws)>> : i \in 1..Len(channels)}

\* C35: the rows in any other order put every channel in the same bucket.
C35_RoutingIgnoresRowOrder ==
    Extracted =>
        \A kws \in KeywordLists :
            \A p \in Permutations(1..Len(rows)) :
                LET other == extract_youtube_channels([i \in 1..Len(rows) |-> rows[p[i]]])
                IN  Buckets(other.channels, kws) = Buckets(extracted.channels, kws)

(***************************************************************************)
(* Properties of the channels step 7 could not resolve, checked under      *)
(* Spec.                                                                   *)
(***************************************************************************)
\* the channels step 7 handed to the Resolver and got no metadata for
Unresolved == Range(resolver_log) \ Range(classifier_log)

\* C36: once step 7 is over, a lookup for a channel it could not resolve
\* finds no record, in the rest of the run and so at the lookup of the next
\* run, which therefore puts the channel among its channels_to_analyze again.
C36_NoNegativeCaching ==
    pc \in {"merge", "step8", "sweep", "sweep_save", "step9", "error"} =>
        \A url \in Unresolved : ~IsCacheHit(url, batch_get_cached_categories(docs, <<url>>))

(***************************************************************************)
(* Properties of the run results against the store at the end of step 7,   *)
(* checked under Spec.                                                     *)
(***************************************************************************)
\* C37: when step 7 has merged its results, every run result not taken from
\* the cache has a document under its key with the same flag, confidence and
\* reasoning.
C37_ResultsAgreeWithStore ==
    pc = "step8" =>
        \A i \in 1..Len(final_results) :
            LET result == final_results[i]
                key == _sanitize_doc_id(result["channel_url"])
            IN  ~result["cached"] =>
                   /\ key \in DOMAIN docs
                   /\ docs[key]["is_children_content"] = result["is_children_content"]
                   /\ docs[key]["confidence"] = result["confidence"]
                   /\ docs[key]["reasoning"] = result["reasoning"]

(***************************************************************************)
(* Properties of the count in the warning of the notification, checked     *)
(* under Spec.                                                             *)
(***************************************************************************)
\* the channels of channels_to_analyze step 7 made no categorization for
NotClassified ==
    {i \in 1..Len(channels_to_analyze) :
        \A j \in 1..Len(processed_results) :
            processed_results[j]["channel_url"] # channels_to_analyze[i]}

\* C38: when the warning is written, the count it gives is not negative and
\* is the number of channels of channels_to_analyze without a categorization
\* of this run.
C38_UnprocessedCount ==
    (pc = "step9" /\ quota_exceeded) =>
        /\ UnprocessedCount >= 0
        /\ UnprocessedCount = Cardinality(NotClassified)

(***************************************************************************)
(* Properties of the identifier kept by _extract_channel_url, checked      *)
(* under SpecRawReport.                                                    *)
(***************************************************************************)
\* the placement cell of a row as line 92 reads it
PlacementText(row) ==
    Strip(FirstTruthy(Get(row, PLACEMENT_ALL, None), Get(row, "Placement", None)))

\* the text after the discriminator of the canonical shape the placement has
AfterDiscriminator(placement) ==
    LET shape == CHOOSE c \in CanonicalShapes : Contains(YT \o <<"/">> \o c, placement)
    IN  [shape |-> shape, rest |-> AfterLast(placement, YT \o <<"/">> \o shape)]

\* the placement is of a canonical shape, with an identifier, and goes on
\* after the identifier with a slash
HasFurtherPath(row) ==
    /\ \E c \in CanonicalShapes : Contains(YT \o <<"/">> \o c, PlacementText(row))
    /\ LET rest == AfterDiscriminator(PlacementText(row)).rest
       IN  Contains(<<"/">>, rest) /\ Split(rest, "/")[1] # <<>>

\* the canonical URL with the identifier that directly follows the
\* discriminator
DirectUrl(row) ==
    LET a == AfterDiscriminator(PlacementText(row))
    IN  UrlPrefix \o a.shape \o Split(a.rest, "/")[1]

\* C39: every row whose placement is a URL of a canonical shape followed by
\* further path segments or a slash has its record under the canonical URL of
\* the identifier that follows the discriminator, so that rows of different
\* identifiers have different records.
C39_IdentifierPreserved ==
    Extracted =>
        \A k \in 1..Len(rows) :
            (HasFurtherPath(rows[k]) /\ ~UnknownNamed(rows[k])) =>
                \E i \in 1..Len(extracted.channels) :
                    extracted.channels[i].url = DirectUrl(rows[k])

====
